---- MODULE Spec2Model ----
(***************************************************************************)
(* A model of goppstats: the Prometheus sink (metric store, dataset        *)
(* synchronisation, sample fingerprinting) and the cluster session client  *)
(* (Authenticate, restGet).                                                *)
(*                                                                         *)
(* Go strings are TLA+ strings; Go maps are functions; a Go map iteration  *)
(* (whose order the language leaves unspecified) is a sequence that holds  *)
(* every key once, chosen nondeterministically where the order can matter. *)
(***************************************************************************)
EXTENDS Integers, Sequences, FiniteSets, Bags, TLC

(***************************************************************************)
(* Strings, compared bytewise as sort.Strings does.                        *)
(***************************************************************************)

\* The printable ASCII characters the model uses, in ASCII order.
Chars == " !#$%&'+,-./0123456789:;<=>?@ABCDEFGHIJKLMNOPQRSTUVWXYZ[]^_abcdefghijklmnopqrstuvwxyz{|}~"

\* The rank of a one-character string in ASCII order.
CharRank == [c \in {SubSeq(Chars, i, i) : i \in 1..Len(Chars)} |->
               CHOOSE i \in 1..Len(Chars) : SubSeq(Chars, i, i) = c]

RECURSIVE StrLess(_, _)
\* a < b for Go strings (bytewise lexicographic order).
StrLess(a, b) ==
  IF Len(b) = 0 THEN FALSE
  ELSE IF Len(a) = 0 THEN TRUE
  ELSE IF Head(a) = Head(b) THEN StrLess(Tail(a), Tail(b))
  ELSE CharRank[Head(a)] < CharRank[Head(b)]

RECURSIVE InsertSorted(_, _)
\* s is sorted ascending; the result is s with x inserted in order.
InsertSorted(s, x) ==
  IF Len(s) = 0 THEN <<x>>
  ELSE IF StrLess(x, Head(s)) THEN <<x>> \o s
  ELSE <<Head(s)>> \o InsertSorted(Tail(s), x)

RECURSIVE SortStrings(_)
\* sort.Strings: the strings of s in ascending order.
SortStrings(s) ==
  IF Len(s) = 0 THEN <<>> ELSE InsertSorted(SortStrings(Tail(s)), Head(s))

RECURSIVE Join(_, _)
\* strings.Join(s, sep)
Join(s, sep) ==
  IF Len(s) = 0 THEN ""
  ELSE IF Len(s) = 1 THEN Head(s)
  ELSE Head(s) \o sep \o Join(Tail(s), sep)

Digits == "0123456789"

RECURSIVE Itoa(_)
\* strconv.Itoa, also fmt's %d
Itoa(n) ==
  IF n < 0 THEN "-" \o Itoa(0 - n)
  ELSE IF n < 10 THEN SubSeq(Digits, n + 1, n + 1)
  ELSE Itoa(n \div 10) \o SubSeq(Digits, (n % 10) + 1, (n % 10) + 1)

(***************************************************************************)
(* Go maps.                                                                *)
(***************************************************************************)

\* A Go pointer field (*string, *int): Nil when absent, Some(v) when it
\* points at v, which Deref reads.
Nil == <<>>

Some(v) == <<v>>

Deref(p) == p[1]

EmptyMap == [k \in {} |-> 0]

\* m[k] = v
Put(m, k, v) == [x \in (DOMAIN m) \cup {k} |-> IF x = k THEN v ELSE m[x]]

\* delete(m, k)
Delete(m, k) == [x \in (DOMAIN m) \ {k} |-> m[x]]

\* The enumerations of a map's keys: each is one order a range loop may take.
KeyOrders(m) ==
  LET n == Cardinality(DOMAIN m)
  IN  {o \in [1..n -> DOMAIN m] : \A i, j \in 1..n : i # j => o[i] # o[j]}

(***************************************************************************)
(* CreateSampleID                                                          *)
(***************************************************************************)

\* The "k=v" strings in the order the range loop appended them.
TagPairs(tags, order) == [i \in 1..Len(order) |-> order[i] \o "=" \o tags[order[i]]]

\* A faulty variant: the pairs joined in iteration order, the sort left out.
CreateSampleIDUnsorted(tags, order) == Join(TagPairs(tags, order), ",")

\* CreateSampleID(tags), the range loop having enumerated the keys as `order`.
CreateSampleID(tags, order) == Join(SortStrings(TagPairs(tags, order)), ",")

(***************************************************************************)
(* Program constants.                                                      *)
(***************************************************************************)

\* The largest dataset id UpdateDatasets compares.
MaxDsId == 4

\* WritePPStats: Expiration = now.Add(30 * time.Second)
SampleTTL == 30

NAMESPACE == "isilon"
BASEPPNAME == "ppstat"

F_BYTESIN == "bytes_in"
F_BYTESOUT == "bytes_out"
F_READS == "reads"
F_WRITES == "writes"
F_OPS == "ops"
F_L2 == "l2"
F_L3 == "l3"
F_CPU == "cpu"
F_LATREAD == "latency_read"
F_LATWRITE == "latency_write"
F_LATOTHER == "latency_other"

ppFixedFields ==
  <<F_BYTESIN, F_BYTESOUT, F_READS, F_WRITES, F_OPS, F_L2, F_L3, F_CPU,
    F_LATREAD, F_LATWRITE, F_LATOTHER>>

W_ADDITIONAL == "Additional"
W_EXCLUDED == "Excluded"
W_OVERACCOUNTED == "Overaccounted"
W_SYSTEM == "System"
W_UNKNOWN == "Unknown"
\* The marker of a pinned workload (used by WritePPStats).
W_PINNED == "Pinned"

workloadTypes == <<W_ADDITIONAL, W_EXCLUDED, W_OVERACCOUNTED, W_SYSTEM, W_UNKNOWN>>

isValidWorkloadType(t) ==
  t \in {W_ADDITIONAL, W_EXCLUDED, W_OVERACCOUNTED, W_SYSTEM, W_UNKNOWN}

\* The elements of a sequence.
Range(s) == {s[i] : i \in 1..Len(s)}

(***************************************************************************)
(* PPStatResult, fieldsForPPStat, tagsForPPStat                            *)
(***************************************************************************)

\* A PPStatResult whose numeric fields are zero and whose optional fields
\* are absent.
ZeroPPStat ==
  [CPU |-> 0, Ops |-> 0, Reads |-> 0, Writes |-> 0, BytesOut |-> 0, BytesIn |-> 0,
   L2 |-> 0, L3 |-> 0, LatencyRead |-> 0, LatencyWrite |-> 0, LatencyOther |-> 0,
   Node |-> 0, UnixTime |-> 0,
   Username |-> Nil, Protocol |-> Nil, ShareName |-> Nil, JobType |-> Nil,
   GroupName |-> Nil, Path |-> Nil, ZoneName |-> Nil, DomainID |-> Nil,
   ExportID |-> Nil, UserID |-> Nil, LocalAddress |-> Nil, UserSid |-> Nil,
   ErrorString |-> Nil, RemoteAddress |-> Nil, WorkloadType |-> Nil,
   GroupSid |-> Nil, RemoteName |-> Nil, SystemName |-> Nil, ZoneID |-> Nil,
   WorkloadID |-> Nil, LocalName |-> Nil, GroupID |-> Nil]

fieldsForPPStat(ppstat) ==
  [f \in Range(ppFixedFields) |->
     CASE f = F_BYTESIN -> ppstat.BytesIn
       [] f = F_BYTESOUT -> ppstat.BytesOut
       [] f = F_READS -> ppstat.Reads
       [] f = F_WRITES -> ppstat.Writes
       [] f = F_OPS -> ppstat.Ops
       [] f = F_L2 -> ppstat.L2
       [] f = F_L3 -> ppstat.L3
       [] f = F_CPU -> ppstat.CPU
       [] f = F_LATREAD -> ppstat.LatencyRead
       [] f = F_LATWRITE -> ppstat.LatencyWrite
       [] f = F_LATOTHER -> ppstat.LatencyOther]

\* The keys tagsForPPStat may set.
TagKeys ==
  {"export_id", "export_path", "groupname", "local_address", "path", "protocol",
   "remote_address", "share_name", "username", "zone_name", "workload_type",
   "system_name", "job_type", "domain_id", "workload_id"}

\* What tagsForPPStat gives key k: Nil when it leaves k unset, else Some of
\* the string. exports is the exportMap; looked is what
\* cluster.GetExportPathById answers for this stat's export id (Some path,
\* or Nil for an error).
TagValue(ppstat, exports, looked, k) ==
  CASE k = "export_id" ->
         IF ppstat.ExportID # Nil THEN Some(Itoa(Deref(ppstat.ExportID))) ELSE Nil
    [] k = "export_path" ->
         IF ppstat.ExportID # Nil /\ exports.enabled
         THEN IF Deref(ppstat.ExportID) \in DOMAIN exports.pathById
              THEN Some(exports.pathById[Deref(ppstat.ExportID)])
              ELSE IF looked = Nil THEN Some("unknown (lookup failed)") ELSE looked
         ELSE Nil
    [] k = "groupname" ->
         IF ppstat.GroupName # Nil THEN Some("GID:" \o Deref(ppstat.GroupName))
         ELSE IF ppstat.GroupID # Nil THEN Some("GID:" \o Itoa(Deref(ppstat.GroupID)))
         ELSE IF ppstat.GroupSid # Nil THEN Some("SID:" \o Deref(ppstat.GroupSid))
         ELSE Nil
    [] k = "local_address" ->
         IF ppstat.LocalName # Nil THEN ppstat.LocalName ELSE ppstat.LocalAddress
    [] k = "path" -> ppstat.Path
    [] k = "protocol" -> ppstat.Protocol
    [] k = "remote_address" ->
         IF ppstat.RemoteName # Nil THEN ppstat.RemoteName ELSE ppstat.RemoteAddress
    [] k = "share_name" -> ppstat.ShareName
    [] k = "username" ->
         IF ppstat.Username # Nil THEN ppstat.Username
         ELSE IF ppstat.UserID # Nil THEN Some("UID:" \o Itoa(Deref(ppstat.UserID)))
         ELSE IF ppstat.UserSid # Nil THEN Some("SID:" \o Deref(ppstat.UserSid))
         ELSE Nil
    [] k = "zone_name" ->
         IF ppstat.ZoneName # Nil THEN ppstat.ZoneName
         ELSE IF ppstat.ZoneID # Nil THEN Some("zone:" \o Itoa(Deref(ppstat.ZoneID)))
         ELSE Nil
    [] k = "workload_type" -> ppstat.WorkloadType
    [] k = "system_name" -> ppstat.SystemName
    [] k = "job_type" -> ppstat.JobType
    [] k = "domain_id" -> ppstat.DomainID
    [] k = "workload_id" ->
         IF ppstat.WorkloadID # Nil THEN Some(Itoa(Deref(ppstat.WorkloadID))) ELSE Nil

(***************************************************************************)
(* parsePPStatResult: json.Unmarshal of the response into PPWorkloadQuery. *)
(*                                                                         *)
(* A JSON value is a number, null or a string; a workload of the response  *)
(* is a map from its JSON keys to their values, a key it lacks being       *)
(* absent from the map.                                                    *)
(***************************************************************************)

JNum(n) == [t |-> "num", n |-> n]
JNull == [t |-> "null", n |-> 0]
JStr == [t |-> "str", n |-> 0]

\* The json tags of the required performance metrics of PPStatResult, all
\* of type float64.
JsonKey ==
  [CPU |-> "cpu", Ops |-> "ops", Reads |-> "reads", Writes |-> "writes",
   BytesOut |-> "bytes_out", BytesIn |-> "bytes_in", L2 |-> "l2", L3 |-> "l3",
   LatencyRead |-> "latency_read", LatencyWrite |-> "latency_write",
   LatencyOther |-> "latency_other"]

\* json.Unmarshal cannot store the workload: one of its values for a float64
\* field is a string (an UnmarshalTypeError).
TypeError(raw) ==
  \E f \in DOMAIN JsonKey : JsonKey[f] \in DOMAIN raw /\ raw[JsonKey[f]].t = "str"

\* The PPStatResult json.Unmarshal makes of a workload: a number is stored,
\* null and an absent key leave the field at its zero value.
DecodeWorkload(raw) ==
  [f \in DOMAIN ZeroPPStat |->
     IF f \in DOMAIN JsonKey /\ JsonKey[f] \in DOMAIN raw /\ raw[JsonKey[f]].t = "num"
     THEN raw[JsonKey[f]].n
     ELSE ZeroPPStat[f]]

\* parsePPStatResult(res): the error of json.Unmarshal and nil, or
\* workloads.Workloads.
parsePPStatResult(res) ==
  IF \E k \in 1..Len(res) : TypeError(res[k])
  THEN [err |-> Some("unmarshal"), results |-> <<>>]
  ELSE [err |-> Nil, results |-> [k \in 1..Len(res) |-> DecodeWorkload(res[k])]]

\* value, ok := fieldMap[field].(float64): fieldsForPPStat stores the float64
\* fields of the struct, so the dynamic type of every value is float64.
IsFloat64(fieldMap, field) == field \in DOMAIN fieldMap

\* The state before a response is read.
ParseEntry == [pc |-> "idle", res |-> <<>>, results |-> <<>>, values |-> <<>>]

\* newExportMap(enabled): pathById is made only when lookups are enabled; a
\* read of the nil map finds nothing either.
newExportMap(enabled) == [enabled |-> enabled, pathById |-> EmptyMap]

\* tagsForPPStat calls cluster.GetExportPathById for this stat.
LooksUp(ppstat, exports) ==
  /\ ppstat.ExportID # Nil
  /\ exports.enabled
  /\ Deref(ppstat.ExportID) \notin DOMAIN exports.pathById

\* The export map after tagsForPPStat(ppstat, cluster, exports): the function
\* reads exports.pathById and never assigns to it.
ExportsAfter(ppstat, exports, looked) == exports

\* tagsForPPStat(ppstat, cluster, exports): the map of the keys it sets.
tagsForPPStat(ppstat, exports, looked) ==
  LET set == {k \in TagKeys : TagValue(ppstat, exports, looked, k) # Nil}
  IN  [k \in set |-> Deref(TagValue(ppstat, exports, looked, k))]

(***************************************************************************)
(* Datasets: makePromDataset, makePromMetrics, CreateDataset,              *)
(* ClearDataset, UpdateDatasets.                                           *)
(*                                                                         *)
(* A DsInfoEntry is [CreationTime, Id, Metrics, Name, StatKey]. The sink's *)
(* dataset map s.dsm is [made, map]: made is FALSE while the Go map is nil.*)
(* A promDsInternal is [ds, basename, metrics, labels]. Its metrics map is *)
(* filled once, by makePromMetrics, from the entry it is stored with, and  *)
(* never written again: the state holds metrics = TRUE for the filled map  *)
(* (FALSE for the nil map of the zero value) and PromMetricAt computes the *)
(* entry of a key where the map is read.                                   *)
(* The operators thread st = [dsm, ev]: ev logs the CreateDataset and      *)
(* ClearDataset calls made, in order.                                      *)
(***************************************************************************)

ZeroDsInfoEntry == [CreationTime |-> 0, Id |-> 0, Metrics |-> <<>>, Name |-> "", StatKey |-> ""]

\* The zero promDsInternal, which reading an absent s.dsm[id] yields.
ZeroPromDs == [ds |-> ZeroDsInfoEntry, basename |-> "", metrics |-> FALSE, labels |-> <<>>]

\* The zero promMetric.
ZeroPromMetric == [name |-> "", description |-> "", labels |-> <<>>]

NilDsm == [made |-> FALSE, map |-> EmptyMap]

makePromDataset(ds) == [ds |-> ds, basename |-> "", metrics |-> TRUE, labels |-> <<>>]

RECURSIVE BaseName(_, _)
\* basename = basename + "_" + m, for each m of names
BaseName(base, names) ==
  IF Len(names) = 0 THEN base ELSE BaseName(base \o "_" \o Head(names), Tail(names))

\* The overflow bucket keys "<bucket>_<field>", each with its bucket and field.
OverflowKeys ==
  LET pairs == Range(workloadTypes) \X Range(ppFixedFields)
  IN  [key \in {p[1] \o "_" \o p[2] : p \in pairs} |->
         CHOOSE p \in pairs : p[1] \o "_" \o p[2] = key]

\* dsi.metrics[key] as makePromMetrics fills it for the dataset entry, whose
\* metric names it has sorted; the zero promMetric for any other key.
PromMetricAt(entry, key) ==
  LET basename == BaseName(NAMESPACE \o "_" \o BASEPPNAME, entry.Metrics)
  IN  IF key \in Range(ppFixedFields)
      THEN [name |-> basename \o "_" \o key,
            description |-> "pp dataset " \o Itoa(entry.Id) \o ", metric " \o key,
            labels |-> <<"cluster", "node">> \o entry.Metrics]
      ELSE IF key \in DOMAIN OverflowKeys
      THEN [name |-> basename \o "_" \o key,
            description |-> "pp dataset " \o Itoa(entry.Id) \o ", overflow bucket "
                              \o OverflowKeys[key][1] \o ", metric " \o OverflowKeys[key][2],
            labels |-> <<"cluster", "node">>]
      ELSE ZeroPromMetric

\* makePromMetrics(id) on the dataset map m. It works on a copy of s.dsm[id]:
\* basename and labels are set on the copy only; the metric names, sorted in
\* place, and the metrics map are shared with the stored entry.
makePromMetrics(m, id) ==
  Put(m, id, [m[id] EXCEPT !.ds.Metrics = SortStrings(m[id].ds.Metrics), !.metrics = TRUE])

CreateDataset(st, id, entry, exports) ==
  LET n == Cardinality({i \in 1..Len(entry.Metrics) : entry.Metrics[i] = "export_id"})
      metrics == IF exports.enabled
                 THEN entry.Metrics \o [i \in 1..n |-> "export_path"]
                 ELSE entry.Metrics
      e == [entry EXCEPT !.Metrics = metrics]
  IN  [dsm |-> [st.dsm EXCEPT !.map = makePromMetrics(Put(st.dsm.map, id, makePromDataset(e)), id)],
       ev |-> Append(st.ev, [op |-> "create", id |-> id, ct |-> entry.CreationTime])]

ClearDataset(st, id) ==
  [dsm |-> [st.dsm EXCEPT !.map = Delete(st.dsm.map, id)],
   ev |-> Append(st.ev, [op |-> "delete", id |-> id, ct |-> st.dsm.map[id].ds.CreationTime])]

RECURSIVE CreateAll(_, _, _)
\* First call: for _, ds := range di.Datasets { s.CreateDataset(ds.Id, ds) }
CreateAll(st, datasets, exports) ==
  IF Len(datasets) = 0 THEN st
  ELSE CreateAll(CreateDataset(st, Head(datasets).Id, Head(datasets), exports),
                 Tail(datasets), exports)

RECURSIVE NsdMap(_)
\* nsdMap[v.Id] = v, for each v of di.Datasets
NsdMap(datasets) ==
  IF Len(datasets) = 0 THEN EmptyMap
  ELSE LET last == datasets[Len(datasets)]
       IN  Put(NsdMap(SubSeq(datasets, 1, Len(datasets) - 1)), last.Id, last)

\* The body of the loop over the slots 1..MaxDsId.
UpdateSlot(st, nsdMap, id, exports) ==
  IF id \in DOMAIN st.dsm.map
  THEN IF id \notin DOMAIN nsdMap
       THEN ClearDataset(st, id)
       ELSE IF st.dsm.map[id].ds.CreationTime = nsdMap[id].CreationTime
            THEN st
            ELSE CreateDataset(ClearDataset(st, id), id, nsdMap[id], exports)
  ELSE IF id \notin DOMAIN nsdMap
       THEN st
       ELSE CreateDataset(st, id, nsdMap[id], exports)

RECURSIVE UpdateSlots(_, _, _, _)
\* for id := 1; id <= MaxDsId; id++
UpdateSlots(st, nsdMap, id, exports) ==
  IF id > MaxDsId THEN st
  ELSE UpdateSlots(UpdateSlot(st, nsdMap, id, exports), nsdMap, id + 1, exports)

\* A faulty variant: the first call treated like a regular call on an empty map.
UpdateDatasetsNoFirst(d, datasets, exports) ==
  UpdateSlots([dsm |-> [made |-> TRUE, map |-> d.map], ev |-> <<>>], NsdMap(datasets), 1, exports)

\* UpdateDatasets(di) on the dataset map d: the new map and the calls made.
UpdateDatasets(d, datasets, exports) ==
  IF ~d.made
  THEN CreateAll([dsm |-> [made |-> TRUE, map |-> EmptyMap], ev |-> <<>>], datasets, exports)
  ELSE UpdateSlots([dsm |-> d, ev |-> <<>>], NsdMap(datasets), 1, exports)

(***************************************************************************)
(* The metric store: addSample, addMetricFamily, Expire, Collect,          *)
(* WritePPStats.                                                           *)
(*                                                                         *)
(* A Sample is [Labels, Value, Timestamp, Expiration]; a MetricFamily is   *)
(* [Samples, LabelSet, Desc]; s.fam maps a family name to its MetricFamily.*)
(* Times are seconds.                                                      *)
(***************************************************************************)

\* A faulty variant: Lock returns without waiting.
LockNoWait(held) == TRUE

\* s.Lock() returns when the mutex is not held.
LockEnabled(held) == ~held

\* m[k], the Go zero value z when k is not a key of m.
Get(m, k, z) == IF k \in DOMAIN m THEN m[k] ELSE z

\* A faulty variant: a sample already held under the fingerprint is kept.
addSampleKeepFirst(family, sample, sampleID) ==
  [family EXCEPT
     !.LabelSet = [k \in (DOMAIN family.LabelSet) \cup (DOMAIN sample.Labels) |->
                     Get(family.LabelSet, k, 0) + (IF k \in DOMAIN sample.Labels THEN 1 ELSE 0)],
     !.Samples = IF sampleID \in DOMAIN family.Samples
                 THEN family.Samples ELSE Put(family.Samples, sampleID, sample)]

\* addSample: fam.LabelSet[k]++ for each label key k of the sample, then
\* fam.Samples[sampleID] = sample.
addSample(family, sample, sampleID) ==
  [family EXCEPT
     !.LabelSet = [k \in (DOMAIN family.LabelSet) \cup (DOMAIN sample.Labels) |->
                     Get(family.LabelSet, k, 0) + (IF k \in DOMAIN sample.Labels THEN 1 ELSE 0)],
     !.Samples = Put(family.Samples, sampleID, sample)]

addMetricFamily(fams, sample, mname, desc, sampleID) ==
  LET family == Get(fams, mname, [Samples |-> EmptyMap, LabelSet |-> EmptyMap, Desc |-> desc])
  IN  Put(fams, mname, addSample(family, sample, sampleID))

\* now.After(sample.Expiration)
Expired(sample, t) == t > sample.Expiration

\* A faulty variant: an emptied family is left in the store.
ExpireKeepFamilies(fams, t) ==
  [name \in DOMAIN fams |->
     LET family == fams[name]
         gone == {key \in DOMAIN family.Samples : Expired(family.Samples[key], t)}
     IN  [family EXCEPT
            !.Samples = [key \in (DOMAIN family.Samples) \ gone |-> family.Samples[key]],
            !.LabelSet = [k \in DOMAIN family.LabelSet |->
                            family.LabelSet[k]
                            - Cardinality({key \in gone : k \in DOMAIN family.Samples[key].Labels})]]]

\* Expire at time t. The loops delete each expired sample, decrement the
\* family's count of each of its label keys, and delete the family when the
\* deletion leaves it without samples; the outcome does not depend on the
\* order in which the maps are ranged over.
Expire(fams, t) ==
  LET gone(name) == {key \in DOMAIN fams[name].Samples : Expired(fams[name].Samples[key], t)}
      dropped == {name \in DOMAIN fams :
                    gone(name) # {} /\ gone(name) = DOMAIN fams[name].Samples}
  IN  [name \in (DOMAIN fams) \ dropped |->
         LET family == fams[name]
         IN  [family EXCEPT
                !.Samples = [key \in (DOMAIN family.Samples) \ gone(name) |-> family.Samples[key]],
                !.LabelSet = [k \in DOMAIN family.LabelSet |->
                                family.LabelSet[k]
                                - Cardinality({key \in gone(name) :
                                                 k \in DOMAIN family.Samples[key].Labels})]]]

\* The label names Collect exposes for a family: those counted above zero.
LabelNames(family) == {k \in DOMAIN family.LabelSet : family.LabelSet[k] > 0}

\* The metric Collect sends for one sample of family `name`: a label the
\* sample does not carry reads as the empty string.
MetricOf(name, family, sample) ==
  [name |-> name,
   labels |-> [k \in LabelNames(family) |-> Get(sample.Labels, k, "")],
   value |-> sample.Value,
   timestamp |-> sample.Timestamp]

\* What the loop of Collect sends on the channel for the families fams: the
\* bag of the metrics (the order of sending is that of the map iterations).
Collected(fams) ==
  LET ids == UNION {{<<name, key>> : key \in DOMAIN fams[name].Samples} : name \in DOMAIN fams}
      m(p) == MetricOf(p[1], fams[p[1]], fams[p[1]].Samples[p[2]])
  IN  [r \in {m(p) : p \in ids} |-> Cardinality({p \in ids : m(p) = r})]

\* The stat is for an overflow bucket: workloadType != nil && *workloadType != W_PINNED
IsBucket(ppstat) == ppstat.WorkloadType # Nil /\ Deref(ppstat.WorkloadType) # W_PINNED

\* The stat WritePPStats logs as invalid and passes over.
Ignored(ppstat) == IsBucket(ppstat) /\ ~isValidWorkloadType(Deref(ppstat.WorkloadType))

RECURSIVE AddDatasetLabels(_, _, _)
\* labels[label] = tags[label], for each label of the dataset's metrics
AddDatasetLabels(labels, metrics, tags) ==
  IF Len(metrics) = 0 THEN labels
  ELSE AddDatasetLabels(Put(labels, Head(metrics), Get(tags, Head(metrics), "")),
                        Tail(metrics), tags)

\* A faulty variant: a bucket's stat is given the labels of a regular one.
SampleLabelsAllRegular(clusterName, dsi, ppstat, tags) ==
  LET base == Put(Put(EmptyMap, "cluster", clusterName), "node", Itoa(ppstat.Node))
  IN  Put(AddDatasetLabels(base, dsi.ds.Metrics, tags), "pinned",
          IF ppstat.WorkloadType # Nil /\ Deref(ppstat.WorkloadType) = W_PINNED
          THEN "true" ELSE "false")

\* The label map WritePPStats builds for a stat.
SampleLabels(clusterName, dsi, ppstat, tags) ==
  LET base == Put(Put(EmptyMap, "cluster", clusterName), "node", Itoa(ppstat.Node))
  IN  IF IsBucket(ppstat) THEN base
      ELSE Put(AddDatasetLabels(base, dsi.ds.Metrics, tags), "pinned",
               IF ppstat.WorkloadType # Nil /\ Deref(ppstat.WorkloadType) = W_PINNED
               THEN "true" ELSE "false")

\* overflow bucket keys are of the form "<bucket>_<field>"
FieldKey(ppstat, field) ==
  IF IsBucket(ppstat) THEN Deref(ppstat.WorkloadType) \o "_" \o field ELSE field

\* fullname and description: dsi.metrics[fieldKey], the zero promMetric when
\* the map is nil or the key is absent.
PromMetricFor(dsi, ppstat, field) ==
  IF dsi.metrics THEN PromMetricAt(dsi.ds, FieldKey(ppstat, field)) ELSE ZeroPromMetric

\* The Sample built for one field at time t (the now of the call). The fields
\* of a PPStatResult are float64, so the type assertion holds.
SampleFor(ppstat, labels, field, t) ==
  [Labels |-> labels,
   Value |-> fieldsForPPStat(ppstat)[field],
   Timestamp |-> ppstat.UnixTime,
   Expiration |-> t + SampleTTL]

\* One pass of the loop over ppFixedFields.
WriteField(fams, dsi, ppstat, labels, sampleID, field, t) ==
  addMetricFamily(fams, SampleFor(ppstat, labels, field, t),
                  PromMetricFor(dsi, ppstat, field).name,
                  PromMetricFor(dsi, ppstat, field).description, sampleID)

RECURSIVE WriteFields(_, _, _, _, _, _, _)
WriteFields(fams, dsi, ppstat, labels, sampleID, fields, t) ==
  IF Len(fields) = 0 THEN fams
  ELSE WriteFields(WriteField(fams, dsi, ppstat, labels, sampleID, Head(fields), t),
                   dsi, ppstat, labels, sampleID, Tail(fields), t)

\* The fingerprint WritePPStats records a stat under. env is [order, looked]:
\* the order in which CreateSampleID ranges over the tags, and the answer of
\* the export path lookup.
SampleIDOf(ppstat, exports, env) ==
  CreateSampleID(tagsForPPStat(ppstat, exports, env.looked), env.order)

\* A faulty variant: the stat of an invalid type is passed over after its
\* first field has been recorded.
WriteStatLateSkip(fams, clusterName, dsi, ppstat, exports, env, t) ==
  LET tags == tagsForPPStat(ppstat, exports, env.looked)
      labels == SampleLabels(clusterName, dsi, ppstat, tags)
  IN  WriteFields(fams, dsi, ppstat, labels, SampleIDOf(ppstat, exports, env),
                  IF Ignored(ppstat) THEN <<F_BYTESIN>> ELSE ppFixedFields, t)

\* One pass of the loop over ppstats.
WriteStat(fams, clusterName, dsi, ppstat, exports, env, t) ==
  LET tags == tagsForPPStat(ppstat, exports, env.looked)
      labels == SampleLabels(clusterName, dsi, ppstat, tags)
  IN  IF Ignored(ppstat) THEN fams
      ELSE WriteFields(fams, dsi, ppstat, labels, SampleIDOf(ppstat, exports, env),
                       ppFixedFields, t)

RECURSIVE WriteStats(_, _, _, _, _, _, _)
WriteStats(fams, clusterName, dsi, ppstats, exports, envs, t) ==
  IF Len(ppstats) = 0 THEN fams
  ELSE WriteStats(WriteStat(fams, clusterName, dsi, Head(ppstats), exports, Head(envs), t),
                  clusterName, dsi, Tail(ppstats), exports, Tail(envs), t)

\* dsi := s.dsm[ds.Id]
DsiOf(d, id) == Get(d.map, id, ZeroPromDs)

\* The environments a batch can meet: for each stat, an order of its tags
\* and an answer of the export path lookup.
EnvsOf(ppstats, exports, answers) ==
  {e \in [1..Len(ppstats) ->
            UNION {[order : KeyOrders(tagsForPPStat(ppstats[i], exports, a)), looked : {a}] :
                     i \in 1..Len(ppstats), a \in answers}] :
     \A i \in 1..Len(ppstats) :
       e[i].order \in KeyOrders(tagsForPPStat(ppstats[i], exports, e[i].looked))}

\* The addMetricFamily calls WritePPStats makes for one stat, in order: the
\* family name, the fingerprint and the sample of each.
RecordsOfStat(clusterName, dsi, ppstat, exports, env, t) ==
  LET labels == SampleLabels(clusterName, dsi, ppstat, tagsForPPStat(ppstat, exports, env.looked))
  IN  IF Ignored(ppstat) THEN <<>>
      ELSE [i \in 1..Len(ppFixedFields) |->
              [name |-> PromMetricFor(dsi, ppstat, ppFixedFields[i]).name,
               id |-> SampleIDOf(ppstat, exports, env),
               desc |-> PromMetricFor(dsi, ppstat, ppFixedFields[i]).description,
               sample |-> SampleFor(ppstat, labels, ppFixedFields[i], t)]]

RECURSIVE RecordsOf(_, _, _, _, _, _)
\* The addMetricFamily calls WritePPStats makes for a batch, in order.
RecordsOf(clusterName, dsi, ppstats, exports, envs, t) ==
  IF Len(ppstats) = 0 THEN <<>>
  ELSE RecordsOfStat(clusterName, dsi, Head(ppstats), exports, Head(envs), t)
       \o RecordsOf(clusterName, dsi, Tail(ppstats), exports, Tail(envs), t)

(***************************************************************************)
(* The session client: Authenticate and restGet.                           *)
(*                                                                         *)
(* An error is Nil or Some(kind); a response is Nil or Some(r). The frame  *)
(* of an Authenticate call is [caller, i, retrySecs, err, resp], that of a *)
(* restGet call [i, retrySecs, err, resp, req]. Times are seconds. The     *)
(* frames also count what the call has done so far: the requests it sent   *)
(* (posts, gets), the sleeps it took and the logins it asked for.          *)
(***************************************************************************)

maxTimeoutSecs == 1800

\* A faulty variant: the doubling without the cap.
NextRetrySecsNoCap(retrySecs) == retrySecs * 2

\* retrySecs *= 2; if retrySecs > maxTimeoutSecs { retrySecs = maxTimeoutSecs }
NextRetrySecs(retrySecs) ==
  IF retrySecs * 2 > maxTimeoutSecs THEN maxTimeoutSecs ELSE retrySecs * 2

\* A faulty variant: one more pass than the ceiling.
AuthLoopRunsOnceMore(i, maxRetries) == i <= maxRetries + 1

\* Authenticate: for i := 1; i <= c.maxRetries; i++
AuthLoopRuns(i, maxRetries) == i <= maxRetries

\* restGet: for i := 1; i < c.maxRetries; i++
GetLoopRuns(i, maxRetries) == i < maxRetries

\* A faulty variant: the minute's grace is taken off every timeout.
ReauthDelayAlwaysGrace(ta) == (IF ta # Nil THEN Deref(ta) ELSE 14400) - 60

\* The seconds from a login to c.reauthTime: timeout_absolute, 14400 when the
\* response has none, less a minute's grace when it is over 60.
ReauthDelay(ta) ==
  LET timeout == IF ta # Nil THEN Deref(ta) ELSE 14400
  IN  IF timeout > 60 THEN timeout - 60 ELSE timeout

\* c.csrfToken after the loop over the jar's cookies: the value of the
\* isicsrf cookie, "" without one.
TokenOf(cookies) == IF cookies # Nil THEN Deref(cookies) ELSE ""

\* The locals of Authenticate on entry, called from caller.
AuthEntry(caller) ==
  [caller |-> caller, i |-> 1, retrySecs |-> 1, err |-> Nil, resp |-> Nil,
   posts |-> 0, sleeps |-> <<>>]

\* A faulty variant: every error counts as a refused connection.
AnyErrorRefused(err) == TRUE

\* if uerr.Err.Err.Err == syscall.ECONNREFUSED { return true }; return false
isConnectionRefused(err) == err = Some("refused")

\* The headers newGetRequest sets from the cluster: X-CSRF-Token (with the
\* Referer) when c.csrfToken is not empty, the basic credentials when the
\* authentication type is basic. csrf is the token sent, "" for no header.
newGetRequest(c) ==
  [csrf |-> IF c.csrfToken # "" THEN c.csrfToken ELSE "",
   basic |-> c.AuthType = "basic-auth"]

\* A faulty variant: the timer is looked at whatever the authentication type.
ReauthDueAnyType(c, t) == t > c.reauthTime

\* c.AuthType == authtypeSession && time.Now().After(c.reauthTime)
ReauthDue(c, t) == c.AuthType = "session" /\ t > c.reauthTime

\* The locals of restGet before its loop, for the cluster c.
GetEntry(c) ==
  [i |-> 1, retrySecs |-> 1, err |-> Nil, resp |-> Nil, req |-> newGetRequest(c),
   gets |-> 0, sleeps |-> <<>>, reauths |-> 0]

\* How Authenticate ends after its loop. resp.Body of a nil resp is a nil
\* pointer dereference: the goroutine panics.
AuthOutcome(a) ==
  IF a.err # Nil THEN "max_retries_exceeded"
  ELSE IF a.resp = Nil THEN "panic"
  ELSE IF Deref(a.resp).status # "201" THEN "auth_failed"
  ELSE IF ~Deref(a.resp).decodes THEN "parse_error"
  ELSE "ok"

\* How restGet ends after its loop: the last error when the loop ran out on
\* refused connections, a panic on resp.Body of a nil resp.
GetOutcome(g) ==
  IF g.err # Nil THEN "connection_refused"
  ELSE IF g.resp = Nil THEN "panic"
  ELSE IF Deref(g.resp) # "200" THEN "unexpected_status"
  ELSE "ok"

(***************************************************************************)
(* The worker of one cluster: statsloop, from its polling loop on.         *)
(*                                                                         *)
(* The locals of statsloop are the fields of the worker: curTime,          *)
(* nextTime, di (the datasets fetched), idx (the place of the range over   *)
(* di.Datasets), sr, err, readFailCount, retryTime, i (the write attempt). *)
(* pc is its position, time the wall clock in seconds, cycle the number of *)
(* passes of the loop begun, and gc the global configuration.              *)
(***************************************************************************)

\* const PPSampleRate = 30
PPSampleRate == 30

\* const maxRetryTime = time.Second * 1280
maxRetryTime == 1280

\* retryTime := time.Second * 10
readRetryTime == 10

\* if retryTime < maxRetryTime { retryTime *= 2 }
NextRetryTime(retryTime) == IF retryTime < maxRetryTime THEN retryTime * 2 ELSE retryTime

\* A faulty variant: one more pass than the configured count.
WriteLoopRunsOnceMore(i, gc) == i <= gc.ProcessorMaxRetries + 1

\* for i := 1; i <= gc.ProcessorMaxRetries; i++
WriteLoopRuns(i, gc) == i <= gc.ProcessorMaxRetries

\* A faulty variant: the whole sample period is slept after every pass.
CadenceSleepWholePeriod(time, nextTime) == PPSampleRate

\* if curTime.Before(nextTime) { time.Sleep(nextTime.Sub(curTime)) }: the
\* seconds slept at the end of a pass, 0 for no sleep.
CadenceSleep(time, nextTime) == IF time < nextTime THEN nextTime - time ELSE 0

\* A faulty variant: the loop around GetPPStats is left after any answer.
ReadDoneAlways(err) == TRUE

\* if err == nil { break }, after c.GetPPStats(dsName)
ReadDone(err) == err = Nil

\* A faulty variant: a failed fetch of the datasets is passed over.
BailsNever(err) == FALSE

\* if err != nil { ...; return }, after c.GetDataSetInfo()
Bails(err) == err # Nil

\* The worker on entry to its loop, with the global configuration gc. Two
\* fields follow the sink of a worker that is watched: expires gives, for
\* each dataset written in the passes so far without a pass in between that
\* left it out, the Expiration of the samples of its last successful write,
\* and before is the Expiration that the write just made replaced, Nil when
\* there was none.
WorkerEntry(gc) ==
  [pc |-> "top", gc |-> gc, time |-> 0, cycle |-> 0, curTime |-> 0, nextTime |-> 0,
   di |-> <<>>, idx |-> 0, sr |-> <<>>, err |-> Nil,
   readFailCount |-> 0, retryTime |-> 0, i |-> 0,
   watched |-> FALSE, expires |-> EmptyMap, before |-> Nil]

\* One event of the cycle's history: the fetch of the datasets ("datasets"),
\* ss.UpdateDatasets ("sync"), c.GetPPStats ("read") and ss.WritePPStats
\* ("write") for the dataset ds, a sleep of secs seconds ("sleep"); ok tells
\* whether the call returned without error.
LoopEvent(ev, ds, ok, secs) == [ev |-> ev, ds |-> ds, ok |-> ok, secs |-> secs]

(***************************************************************************)
(* main: one goroutine running statsloop for each cluster that is not      *)
(* disabled, and the WaitGroup main waits on.                              *)
(*                                                                         *)
(* fleet.pc is the position of main, ci the place of its range over        *)
(* conf.Clusters, wg the counter of the WaitGroup, w[ci] the goroutine of  *)
(* cluster ci: its state ("none" before it is spawned, "spawned",          *)
(* "running" once it is in its polling loop, "ended"), the passes it has   *)
(* made and why it ended. crashed tells that a goroutine has panicked,     *)
(* which ends the process.                                                 *)
(***************************************************************************)

DISCARD_PLUGIN_NAME == "discard"
INFLUX_PLUGIN_NAME == "influxdb"
INFLUXv2_PLUGIN_NAME == "influxdbv2"
PROM_PLUGIN_NAME == "prometheus"

\* A faulty variant: a writer is made for any backend name.
getDBWriterAnyName(sp) == Some(sp)

\* getDBWriter(sp): the writer of the backend, Nil with the error
\* "unsupported backend plugin".
getDBWriter(sp) ==
  IF sp \in {DISCARD_PLUGIN_NAME, INFLUX_PLUGIN_NAME, INFLUXv2_PLUGIN_NAME, PROM_PLUGIN_NAME}
  THEN Some(sp) ELSE Nil

\* How ss.Init(c, config, ci) can end: the Prometheus sink fails without a
\* port for the cluster and may fail to start its listener, the discard sink
\* never fails, the others may.
InitOutcomes(ss, cl) ==
  IF ss = PROM_PLUGIN_NAME
  THEN (IF cl.PrometheusPort = Nil THEN {"init"} ELSE {"ok", "init"})
  ELSE IF ss = DISCARD_PLUGIN_NAME THEN {"ok"}
  ELSE {"ok", "init"}

\* How statsloop ends its steps after c.Connect(): getDBWriter, then ss.Init.
SinkOutcomes(gc, cl) ==
  IF getDBWriter(gc.Processor) = Nil THEN {"sink"}
  ELSE InitOutcomes(Deref(getDBWriter(gc.Processor)), cl)

\* How c.Connect() can end for a cluster with these settings: Authenticate
\* in session mode, then GetClusterConfig, which is a restGet. A loop that
\* makes no pass leaves resp nil and the call panics.
ConnectOutcomes(maxRetries, authType) ==
  LET c == [maxRetries |-> maxRetries, AuthType |-> authType,
            csrfToken |-> "", reauthTime |-> 0]
      login == IF authType # "session" THEN {"ok"}
               ELSE IF AuthLoopRuns(1, maxRetries) THEN {"ok", "error"}
               ELSE {IF AuthOutcome(AuthEntry("top")) = "panic" THEN "panic" ELSE "error"}
      config == IF GetLoopRuns(1, maxRetries) THEN {"ok", "error"}
                ELSE {IF GetOutcome(GetEntry(c)) = "panic" THEN "panic" ELSE "error"}
  IN  (login \ {"ok"}) \cup (IF "ok" \in login THEN config ELSE {})

\* if cl.Disabled { ...; continue }
Skipped(cl) == cl.Disabled

\* The goroutine of a cluster before main reaches it.
NoWorker == [state |-> "none", passes |-> 0, why |-> ""]

\* main after it has read the configuration conf, before its range.
FleetEntry(conf) ==
  [pc |-> "range", ci |-> 1, wg |-> 0, crashed |-> FALSE, conf |-> conf,
   w |-> [i \in 1..Len(conf.Clusters) |-> NoWorker]]

(***************************************************************************)
(* Bounds and inputs.                                                      *)
(***************************************************************************)

\* WritePPStats calls in a behaviour.
MaxWrites == 2

\* The clock stops here.
MaxNow == 45
MaxClock == 6

\* The creation times of the fetched dataset definitions.
CreationTimes == {1, 2}

\* The label maps the fingerprint is computed for.
FpKeys == {"a", "ab", "b"}
FpValues == {"1", "2", "1,b=2"}
FpTagMaps == UNION {[ks -> FpValues] : ks \in SUBSET FpKeys}

\* The dataset ids a fetched list may hold: the system dataset, the first and
\* the last slot UpdateDatasets compares, and the id after the last slot.
DsIds == {0, 1, MaxDsId, MaxDsId + 1}

\* The definition of dataset id created at time ct: a redefinition changes
\* the metric names.
DsEntry(id, ct) ==
  [CreationTime |-> ct, Id |-> id,
   Metrics |-> IF ct = 1 THEN <<"protocol">> ELSE <<"username", "protocol">>,
   Name |-> "ds" \o Itoa(id), StatKey |-> "cluster.performance.dataset." \o Itoa(id)]

RECURSIVE DsList(_, _)
\* The list, in id order, of the datasets of c (a map from ids to creation
\* times) whose id is at least from.
DsList(c, from) ==
  IF \A id \in DOMAIN c : id < from THEN <<>>
  ELSE LET id == CHOOSE x \in DOMAIN c : x >= from /\ \A y \in DOMAIN c : y >= from => x <= y
       IN  <<DsEntry(id, c[id])>> \o DsList(c, id + 1)

\* The lists GetDataSetInfo may answer.
DsLists == {DsList(c, 0) : c \in UNION {[ids -> CreationTimes] : ids \in SUBSET DsIds}}

\* The ids of a list of datasets.
IdsOf(datasets) == {datasets[i].Id : i \in 1..Len(datasets)}

\* A stat of node `node` whose required fields are v, v+1, ..., v+10.
Stat(node, wt, proto, v, ts) ==
  [ZeroPPStat EXCEPT !.Node = node, !.WorkloadType = wt, !.Protocol = proto,
                     !.UnixTime = ts,
                     !.BytesIn = v, !.BytesOut = v + 1, !.Reads = v + 2, !.Writes = v + 3,
                     !.Ops = v + 4, !.L2 = v + 5, !.L3 = v + 6, !.CPU = v + 7,
                     !.LatencyRead = v + 8, !.LatencyWrite = v + 9, !.LatencyOther = v + 10]

\* The batches GetPPStats may answer: a workload of node 1; the same workload
\* measured earlier on node 1 and on node 2; an unknown workload type, a
\* pinned workload and a bucket.
Batches ==
  {<<Stat(1, Nil, Some("nfs"), 30, 200)>>,
   <<Stat(1, Nil, Some("nfs"), 10, 100), Stat(2, Nil, Some("nfs"), 30, 100)>>,
   <<Stat(1, Some("Bogus"), Nil, 10, 100), Stat(1, Some(W_PINNED), Some("smb"), 30, 200),
     Stat(2, Some(W_SYSTEM), Nil, 10, 100)>>}

\* The dataset whose stats carry tags beyond its metrics.
TaggedDsId == 2

\* Batches whose stats carry a tag that is no metric of their dataset: two
\* workloads of node 1 with the same protocol and different workload ids;
\* one of them alone; two rows of the System bucket of node 1 for different
\* services.
TaggedBatches ==
  LET w(id, v) == [Stat(1, Nil, Some("nfs"), v, 100) EXCEPT !.WorkloadID = Some(id)]
      s(name, v) == [Stat(1, Some(W_SYSTEM), Nil, v, 100) EXCEPT !.SystemName = Some(name)]
  IN  {<<w(1, 10), w(2, 30)>>, <<w(1, 10)>>, <<s("lwio", 10), s("nfs", 30)>>}

\* The batches GetPPStats may answer for the dataset.
BatchesFor(ds) == IF ds.Id < TaggedDsId THEN Batches ELSE TaggedBatches

\* The values of max_retries.
RetryCeilings == {-1, 0, 1, 3}

\* The values of max_retries of the clusters that only log in.
LoginCeilings == {2, 13}

\* The values of timeout_absolute in a login response, Nil when it has none.
Timeouts == {Nil, Some(2), Some(61)}

\* The isicsrf cookie a login response sets, Nil when it sets none.
Cookies == {Nil, Some("t1"), Some("t2")}

\* What c.client.Do answers to the login request.
AuthAnswers ==
  [err : {Some("refused"), Some("other")}]
  \cup {[err |-> Nil, status |-> "201", decodes |-> TRUE, timeout |-> t, cookie |-> c] :
          t \in Timeouts, c \in Cookies}
  \cup {[err |-> Nil, status |-> "201", decodes |-> FALSE, timeout |-> Nil, cookie |-> Nil],
        [err |-> Nil, status |-> "401", decodes |-> TRUE, timeout |-> Nil, cookie |-> Nil]}

\* What c.client.Do answers to a GET request.
GetAnswers ==
  [err : {Some("refused"), Some("other")}]
  \cup [err : {Nil}, status : {"200", "401", "503"}]

\* The time that passes between two calls.
ElapseSteps == {3}

\* The passes of the polling loop a worker begins.
MaxCycles == 2

\* The failed fetches of samples in one pass of the polling loop.
MaxReadFails == 2

\* The global configurations of the workers: stats_processor_max_retries and
\* stats_processor_retry_interval.
LoopConfigs == [ProcessorMaxRetries : {0, 1, 2}, ProcessorRetryIntvl : {1, 5, 1000}]

\* What c.GetDataSetInfo answers: an error, or the datasets of the cluster.
DatasetAnswers ==
  {[err |-> Some("failed"), Datasets |-> <<>>],
   [err |-> Nil, Datasets |-> <<DsEntry(1, 1)>>],
   [err |-> Nil, Datasets |-> <<DsEntry(1, 1), DsEntry(2, 1)>>]}

\* The seconds c.GetDataSetInfo takes to answer.
CallSecs == {0, 4}

\* What c.GetPPStats answers: an error, or the workloads of the dataset.
StatsAnswers ==
  {[err |-> Some("failed"), sr |-> <<>>],
   [err |-> Nil, sr |-> <<Stat(1, Nil, Some("nfs"), 30, 200)>>]}

\* What ss.WritePPStats returns.
WriteAnswers == {Nil, Some("failed")}

\* The workers as they enter their loops.
WorkerStarts == {WorkerEntry(gc) : gc \in LoopConfigs}
IdleWorker == {WorkerEntry([ProcessorMaxRetries |-> 0, ProcessorRetryIntvl |-> 1])}

\* The same workers, their sinks watched.
WatchedStarts == {[w EXCEPT !.watched = TRUE] : w \in WorkerStarts}

\* The sink before Init, its mutex free, the worker and the scrape idle.
HoldEntry ==
  [wpc |-> "init", cpc |-> "idle", locked |-> FALSE, exports |-> newExportMap(FALSE),
   maxRetries |-> 0, batch |-> <<>>, k |-> 0, i |-> 0]

\* The batches written around the mutex: one or two stats, each with or
\* without an export id.
HoldBatches ==
  LET stats == {[Stat(1, Nil, Some("nfs"), 10, 100) EXCEPT !.ExportID = e] :
                  e \in {Nil, Some(1)}}
  IN  {<<a>> : a \in stats} \cup {<<a, b>> : a, b \in stats}

\* The values of max_retries of the cluster written for.
HoldCeilings == {2, 3}

\* The workloads of a response of the workload endpoint: each has all the
\* required metrics as numbers, but bytes_in may be absent, null or a string
\* and cpu may be absent.
RawWorkloads ==
  LET full == [k \in {JsonKey[f] : f \in DOMAIN JsonKey} |-> JNum(3)]
      drop(m, key) == [k \in DOMAIN m \ {key} |-> m[k]]
      ins == {Put(full, "bytes_in", v) : v \in {JNum(10), JNull, JStr}}
               \cup {drop(full, "bytes_in")}
  IN  ins \cup {drop(m, "cpu") : m \in ins}

\* The responses: one or two workloads.
Responses == {<<a>> : a \in RawWorkloads} \cup {<<a, b>> : a, b \in RawWorkloads}

\* The export ids of the stats tagged here, and what the cluster answers for
\* an export id: the first path of the export, or Nil for an error.
ExportIds == {1, 2}
ExportAnswers == {Nil, Some("/ifs/a"), Some("/ifs/b")}

\* The sink after Init: its export map as newExportMap(enabled) made it, no
\* stat tagged yet, the cluster's exports as they are.
LookupEntry(enabled, remote) ==
  [exports |-> newExportMap(enabled), remote |-> remote, calls |-> <<>>, tagged |-> <<>>]
LookupStarts ==
  {LookupEntry(e, r) : e \in BOOLEAN, r \in [ExportIds -> ExportAnswers]}
IdleLookup == {LookupEntry(FALSE, [id \in ExportIds |-> Nil])}

\* The configurations main reads: the clusters, each disabled or not, and
\* max_retries.
FleetConfigs ==
  {[MaxRetries |-> n, Processor |-> sp, Clusters |-> cls] :
     n \in {0, 1, 8},
     sp \in {PROM_PLUGIN_NAME, DISCARD_PLUGIN_NAME, "graphite"},
     cls \in {<<[Disabled |-> FALSE, AuthType |-> "session", PrometheusPort |-> Some(9100)],
                [Disabled |-> d, AuthType |-> t, PrometheusPort |-> port]>> :
                d \in BOOLEAN, t \in {"session", "basic-auth"}, port \in {Nil, Some(9101)}}}

\* main as it starts.
FleetStarts == {FleetEntry(conf) : conf \in FleetConfigs}
IdleFleet ==
  {FleetEntry([MaxRetries |-> 8, Processor |-> DISCARD_PLUGIN_NAME, Clusters |-> <<>>])}

\* The datasets of the cluster the metric store is written for.
StoreDatasets == <<DsEntry(0, 2), DsEntry(1, 1)>>

ClusterName == "c1"

NoExports == [enabled |-> FALSE, pathById |-> EmptyMap]

(***************************************************************************)
(* State.                                                                  *)
(***************************************************************************)

VARIABLES
  fpTags,     \* the label map last given to CreateSampleID
  fpOrder,    \* the order its range loop took
  fpID,       \* the SampleID it returned
  dsm,        \* PrometheusSink.dsm
  exports,    \* PrometheusSink.exports
  dsFetched,  \* the dataset list of the last UpdateDatasets call
  dsEvents,   \* the CreateDataset and ClearDataset calls that call made
  dsPrev,     \* the creation times held before that call, by id
  dsSeen,     \* the ids of the lists fetched before that call
  dsFirst,    \* that call was the first (s.dsm was nil)
  fam,        \* PrometheusSink.fam
  now,        \* the clock, in seconds
  emitted,    \* the metrics the last step sent, if it was a Collect
  lastOp,     \* the last step on the store
  nWrites,    \* the WritePPStats calls made
  recorded,   \* by <<family, fingerprint>>, the sample last recorded
  byLabels,   \* by <<family, label map>>, the sample last recorded
  firstAt,    \* the time of the first recording, -1 before it
  written,    \* the dataset and the batch of the WritePPStats call made at the
              \* present time, Nil when the last call is older
  locked,     \* the sink's mutex is held
  wr,         \* the WritePPStats call of the worker: its position, the
              \* addMetricFamily calls it has still to make
  col,        \* the Collect call of the scrape: its position, and the
              \* <<family, fingerprint>> of each metric it sent
  groups,     \* for each stat written, its <<family, fingerprint>> pairs
  cluster,    \* Cluster: maxRetries, AuthType, csrfToken, reauthTime
  authF,      \* the frame of the Authenticate call
  getF,       \* the frame of the restGet call
  ctl,        \* where control is
  clock,      \* time.Now()
  jar,        \* the isicsrf cookie of c.client.Jar
  result,     \* the call made last by the client's user: which, how it
              \* ended, the requests it sent, its sleeps
  worker,     \* statsloop: its position, locals, clock and configuration
  history,    \* what the worker did in the pass of its loop it is in
  fleet,      \* main and the workers it spawned, one for each cluster
  lookup,     \* the export map tagsForPPStat is given, and the cluster's exports
  parse,      \* a response of the workload endpoint, decoded and recorded
  hold        \* the worker in WritePPStats and a scrape, around the sink's mutex

fpVars == <<fpTags, fpOrder, fpID>>
dsVars == <<dsm, exports, dsFetched, dsEvents, dsPrev, dsSeen, dsFirst>>
storeVars == <<fam, now, emitted, lastOp, nWrites, recorded, byLabels, firstAt, written>>
concVars == <<locked, wr, col, groups>>
authVars == <<cluster, authF, getF, ctl, clock, jar, result>>
loopVars == <<worker, history>>
mainVars == <<fleet, lookup, parse, hold>>
otherVars == <<fpVars, dsVars, storeVars, concVars, loopVars, mainVars>>
vars == <<fpVars, dsVars, storeVars, concVars, authVars, loopVars, mainVars>>

\* The values the variables of CreateSampleID's caller start from.
FpStart == [fpTags |-> EmptyMap, fpOrder |-> <<>>, fpID |-> ""]

\* A sink before its first UpdateDatasets call.
DsStart ==
  [dsm |-> NilDsm, exports |-> NoExports, dsFetched |-> <<>>, dsEvents |-> <<>>,
   dsPrev |-> EmptyMap, dsSeen |-> {}, dsFirst |-> FALSE]

\* A sink after the first UpdateDatasets call of its worker.
StoreDsStart ==
  [dsm |-> UpdateDatasets(NilDsm, StoreDatasets, NoExports).dsm,
   exports |-> NoExports,
   dsFetched |-> StoreDatasets,
   dsEvents |-> UpdateDatasets(NilDsm, StoreDatasets, NoExports).ev,
   dsPrev |-> EmptyMap, dsSeen |-> {}, dsFirst |-> TRUE]

\* A sink after the first UpdateDatasets call of its worker, for a cluster
\* whose one dataset is the tagged one.
TaggedDsStart ==
  [dsm |-> UpdateDatasets(NilDsm, <<DsEntry(TaggedDsId, 1)>>, NoExports).dsm,
   exports |-> NoExports,
   dsFetched |-> <<DsEntry(TaggedDsId, 1)>>,
   dsEvents |-> UpdateDatasets(NilDsm, <<DsEntry(TaggedDsId, 1)>>, NoExports).ev,
   dsPrev |-> EmptyMap, dsSeen |-> {}, dsFirst |-> TRUE]

\* A cluster after initialize, before any login, with the retry ceiling and
\* the authentication type of its configuration.
AuthStart(maxRetries, authType) ==
  [cluster |-> [maxRetries |-> maxRetries, AuthType |-> authType,
                csrfToken |-> "", reauthTime |-> 0],
   authF |-> AuthEntry("none"),
   getF |-> GetEntry([maxRetries |-> maxRetries, AuthType |-> authType,
                       csrfToken |-> "", reauthTime |-> 0]),
   ctl |-> "idle",
   clock |-> 1,
   jar |-> Nil,
   result |-> [call |-> "none", outcome |-> "none", posts |-> 0, gets |-> 0,
               sleeps |-> <<>>, log |-> <<>>, due |-> FALSE]]

\* The clusters of the configurations.
AuthStarts == {AuthStart(n, t) : n \in RetryCeilings, t \in {"session", "basic-auth"}}

\* The state after construction: the caller of CreateSampleID as fp, the sink's
\* datasets as ds, one of the clusters aus, one of the workers wks, main
\* before one of the configurations fls, one of the export maps lks; the sink's store is empty, its
\* mutex free, the worker and the scrape idle.
Start(fp, ds, aus, wks, fls, lks) ==
  /\ fpTags = fp.fpTags /\ fpOrder = fp.fpOrder /\ fpID = fp.fpID
  /\ dsm = ds.dsm /\ exports = ds.exports /\ dsFetched = ds.dsFetched
  /\ dsEvents = ds.dsEvents /\ dsPrev = ds.dsPrev /\ dsSeen = ds.dsSeen
  /\ dsFirst = ds.dsFirst
  /\ fam = EmptyMap
  /\ now = 0
  /\ emitted = EmptyBag
  /\ lastOp = "init"
  /\ nWrites = 0
  /\ recorded = EmptyMap
  /\ byLabels = EmptyMap
  /\ firstAt = -1
  /\ written = Nil
  /\ locked = FALSE
  /\ wr = [pc |-> "idle", todo |-> <<>>]
  /\ col = [pc |-> "idle", seen |-> {}]
  /\ groups = {}
  /\ \E au \in aus :
       /\ cluster = au.cluster /\ authF = au.authF /\ getF = au.getF /\ ctl = au.ctl
       /\ clock = au.clock /\ jar = au.jar /\ result = au.result
  /\ worker \in wks
  /\ history = <<>>
  /\ fleet \in fls
  /\ lookup \in lks
  /\ parse = ParseEntry
  /\ hold = HoldEntry

(***************************************************************************)
(* CreateSampleID on its own.                                              *)
(***************************************************************************)

Fingerprint ==
  \E tags \in FpTagMaps : \E order \in KeyOrders(tags) :
    /\ fpTags' = tags
    /\ fpOrder' = order
    /\ fpID' = CreateSampleID(tags, order)
    /\ UNCHANGED <<dsVars, storeVars, concVars, authVars, loopVars, mainVars>>

SpecFp == Start(FpStart, DsStart, {AuthStart(0, "session")}, IdleWorker, IdleFleet, IdleLookup) /\ [][Fingerprint]_vars

(***************************************************************************)
(* UpdateDatasets, called once per cycle with the list just fetched.       *)
(***************************************************************************)

CallUpdateDatasets ==
  \E datasets \in DsLists :
    LET r == UpdateDatasets(dsm, datasets, exports)
    IN  /\ dsm' = r.dsm
        /\ dsEvents' = r.ev
        /\ dsFetched' = datasets
        /\ dsPrev' = [id \in DOMAIN dsm.map |-> dsm.map[id].ds.CreationTime]
        /\ dsSeen' = dsSeen \cup IdsOf(dsFetched)
        /\ dsFirst' = ~dsm.made
        /\ UNCHANGED <<exports, fpVars, storeVars, concVars, authVars, loopVars, mainVars>>

SpecDs == Start(FpStart, DsStart, {AuthStart(0, "session")}, IdleWorker, IdleFleet, IdleLookup) /\ [][CallUpdateDatasets]_vars

(***************************************************************************)
(* The metric store, each call taken as one step: WritePPStats and Collect *)
(* hold the sink's mutex from their first statement to their return.       *)
(***************************************************************************)

RECURSIVE PutRecords(_, _, _)
\* m with each record r of recs put under <<r.name, r.id>> (byId) or under
\* <<r.name, r.sample.Labels>>.
PutRecords(m, recs, byId) ==
  IF Len(recs) = 0 THEN m
  ELSE LET r == Head(recs)
       IN  PutRecords(Put(m, <<r.name, IF byId THEN r.id ELSE r.sample.Labels>>, r.sample),
                      Tail(recs), byId)

WritePPStats ==
  /\ nWrites < MaxWrites
  /\ \E i \in 1..Len(dsFetched) : \E ppstats \in BatchesFor(dsFetched[i]) :
       \E envs \in EnvsOf(ppstats, exports, {Nil}) :
         LET dsi == DsiOf(dsm, dsFetched[i].Id)
             recs == RecordsOf(ClusterName, dsi, ppstats, exports, envs, now)
         IN  /\ fam' = WriteStats(fam, ClusterName, dsi, ppstats, exports, envs, now)
             /\ recorded' = PutRecords(recorded, recs, TRUE)
             /\ byLabels' = PutRecords(byLabels, recs, FALSE)
             /\ firstAt' = IF firstAt < 0 /\ Len(recs) > 0 THEN now ELSE firstAt
             /\ written' = Some([ds |-> dsFetched[i], ppstats |-> ppstats, at |-> now])
  /\ nWrites' = nWrites + 1
  /\ emitted' = EmptyBag
  /\ lastOp' = "write"
  /\ UNCHANGED <<now, fpVars, dsVars, concVars, authVars, loopVars, mainVars>>

Collect ==
  /\ fam' = Expire(fam, now)
  /\ emitted' = Collected(fam')
  /\ lastOp' = "collect"
  /\ UNCHANGED <<now, nWrites, recorded, byLabels, firstAt, written, fpVars, dsVars, concVars, authVars, loopVars, mainVars>>

\* The stats tagsForPPStat is called for in the export-id lookup.
MaxSamples == 3

\* The steps of the clock.
ClockSteps == {15}

\* The steps of the clock between the passes of an edited cluster: longer
\* than the ttl of a sample.
LongSteps == {SampleTTL + 15}

TickBy(steps) ==
  /\ \E d \in steps : now + d <= MaxNow /\ now' = now + d
  /\ emitted' = EmptyBag
  /\ lastOp' = "tick"
  /\ written' = Nil
  /\ UNCHANGED <<fam, nWrites, recorded, byLabels, firstAt, fpVars, dsVars, concVars, authVars, loopVars, mainVars>>

Tick == TickBy(ClockSteps)

\* The clock between two passes.
Lapse == TickBy(LongSteps)

StoreNext == WritePPStats \/ Collect \/ Tick

\* The lists GetDataSetInfo may answer in the passes of a worker: dataset 1
\* alone, with the system dataset, and with a dataset above the last slot.
CycleLists ==
  {<<DsEntry(1, 1)>>, <<DsEntry(0, 2), DsEntry(1, 1)>>, <<DsEntry(1, 1), DsEntry(MaxDsId + 1, 1)>>}

\* The lists it may answer on a cluster whose datasets are edited: dataset 1
\* redefined, and dataset 1 deleted while dataset 2 is added.
EditedLists == {<<DsEntry(1, 2)>>, <<DsEntry(2, 1)>>}

\* A faulty variant: the families of the datasets the call deleted are
\* dropped with them.
FamAfterSyncUnregistering(fams, d, datasets, exp) ==
  LET left == UpdateDatasets(d, datasets, exp)
      cleared == {left.ev[j].id : j \in {k \in 1..Len(left.ev) : left.ev[k].op = "delete"}}
      names == {PromMetricAt(d.map[id].ds, key).name :
                  id \in cleared, key \in Range(ppFixedFields) \cup DOMAIN OverflowKeys}
  IN  [name \in (DOMAIN fams) \ names |-> fams[name]]

\* s.fam after UpdateDatasets(di): CreateDataset assigns s.dsm[id] and
\* ClearDataset does delete(s.dsm, id); none of them works on s.fam.
FamAfterSync(fams, d, datasets, exp) == fams

\* statsloop: ss.UpdateDatasets(di) with the list of the pass; the datasets
\* of the list are then fetched and written one by one.
SyncWith(lists) ==
  \E datasets \in lists :
    LET r == UpdateDatasets(dsm, datasets, exports)
    IN  /\ dsm' = r.dsm
        /\ dsEvents' = r.ev
        /\ dsFetched' = datasets
        /\ dsPrev' = [id \in DOMAIN dsm.map |-> dsm.map[id].ds.CreationTime]
        /\ dsSeen' = dsSeen \cup IdsOf(dsFetched)
        /\ dsFirst' = ~dsm.made
        /\ lastOp' = "sync"
        /\ written' = Nil
        /\ fam' = FamAfterSync(fam, dsm, datasets, exports)
        /\ UNCHANGED <<now, emitted, nWrites, recorded, byLabels, firstAt,
                       exports, fpVars, concVars, authVars, loopVars, mainVars>>

SyncDatasets == SyncWith(CycleLists)

\* The same call on a cluster whose datasets are edited between the passes.
SyncEdited == SyncWith(EditedLists)

CycleNext == SyncDatasets \/ WritePPStats \/ Collect

EditNext == SyncEdited \/ WritePPStats \/ Collect \/ Lapse

\* A sink after the first UpdateDatasets call of its worker, for a cluster
\* whose one dataset is dataset 1.
EditDsStart ==
  [dsm |-> UpdateDatasets(NilDsm, <<DsEntry(1, 1)>>, NoExports).dsm,
   exports |-> NoExports,
   dsFetched |-> <<DsEntry(1, 1)>>,
   dsEvents |-> UpdateDatasets(NilDsm, <<DsEntry(1, 1)>>, NoExports).ev,
   dsPrev |-> EmptyMap, dsSeen |-> {}, dsFirst |-> TRUE]

\* The passes of a worker whose cluster has its datasets edited, seen from
\* its sink, with the clock.
SpecEdit ==
  Start(FpStart, EditDsStart, {AuthStart(0, "session")}, IdleWorker, IdleFleet, IdleLookup)
  /\ [][EditNext]_vars

\* The passes of a worker seen from its sink: the schema sync, the writes of
\* the datasets of the list, and the scrapes.
SpecCycle ==
  Start(FpStart, DsStart, {AuthStart(0, "session")}, IdleWorker, IdleFleet, IdleLookup)
  /\ [][CycleNext]_vars

\* The metric store of a cluster whose stats carry tags beyond the metrics of
\* their dataset.
SpecTagged ==
  Start(FpStart, TaggedDsStart, {AuthStart(0, "session")}, IdleWorker, IdleFleet, IdleLookup)
  /\ [][StoreNext]_vars

SpecStore == Start(FpStart, StoreDsStart, {AuthStart(0, "session")}, IdleWorker, IdleFleet, IdleLookup) /\ [][StoreNext]_vars

(***************************************************************************)
(* The metric store, statement by statement: the worker in WritePPStats    *)
(* and the scrape in Collect, each taking the sink's mutex on entry and    *)
(* releasing it on return.                                                 *)
(***************************************************************************)

\* The batches the worker writes here.
ConcBatches ==
  {<<Stat(1, Nil, Some("nfs"), 30, 200)>>,
   <<Stat(1, Nil, Some("nfs"), 10, 100), Stat(2, Some(W_SYSTEM), Nil, 30, 100)>>}

\* The <<family, fingerprint>> pairs of each stat of the calls recs.
GroupsOf(recs) ==
  {{<<recs[j].name, recs[j].id>> :
      j \in {k \in 1..Len(recs) : recs[k].id = recs[i].id
                                   /\ recs[k].sample.Labels = recs[i].sample.Labels}} :
     i \in 1..Len(recs)}

\* The worker calls WritePPStats and waits for the mutex.
WriteCall ==
  /\ wr.pc = "idle" /\ nWrites < MaxWrites
  /\ \E i \in 1..Len(StoreDatasets) : \E ppstats \in ConcBatches :
       \E envs \in EnvsOf(ppstats, exports, {Nil}) :
         wr' = [pc |-> "want",
                todo |-> <<StoreDatasets[i].Id, ppstats, envs>>]
  /\ nWrites' = nWrites + 1
  /\ UNCHANGED <<fam, now, emitted, lastOp, recorded, byLabels, firstAt, written,
                 locked, col, groups, fpVars, dsVars, authVars, loopVars, mainVars>>

\* s.Lock(); now := time.Now(); dsi := s.dsm[ds.Id]
WriteLock ==
  /\ wr.pc = "want" /\ LockEnabled(locked)
  /\ locked' = TRUE
  /\ LET recs == RecordsOf(ClusterName, DsiOf(dsm, wr.todo[1]), wr.todo[2], exports,
                           wr.todo[3], now)
     IN  /\ wr' = [pc |-> "run", todo |-> recs]
         /\ groups' = groups \cup GroupsOf(recs)
  /\ UNCHANGED <<storeVars, col, fpVars, dsVars, authVars, loopVars, mainVars>>

\* One addMetricFamily call of the loops of WritePPStats.
WriteField1 ==
  /\ wr.pc = "run" /\ Len(wr.todo) > 0
  /\ LET r == Head(wr.todo)
     IN  fam' = addMetricFamily(fam, r.sample, r.name, r.desc, r.id)
  /\ wr' = [wr EXCEPT !.todo = Tail(wr.todo)]
  /\ lastOp' = "write"
  /\ UNCHANGED <<now, emitted, nWrites, recorded, byLabels, firstAt, written,
                 locked, col, groups, fpVars, dsVars, authVars, loopVars, mainVars>>

\* return nil, and the deferred s.Unlock()
WriteReturn ==
  /\ wr.pc = "run" /\ Len(wr.todo) = 0
  /\ wr' = [pc |-> "idle", todo |-> <<>>]
  /\ locked' = FALSE
  /\ UNCHANGED <<storeVars, col, groups, fpVars, dsVars, authVars, loopVars, mainVars>>

\* The scrape calls Collect and waits for the mutex.
CollectCall ==
  /\ col.pc = "idle"
  /\ col' = [pc |-> "want", seen |-> {}]
  /\ emitted' = EmptyBag
  /\ UNCHANGED <<fam, now, lastOp, nWrites, recorded, byLabels, firstAt, written,
                 locked, wr, groups, fpVars, dsVars, authVars, loopVars, mainVars>>

\* s.Lock()
CollectLock ==
  /\ col.pc = "want" /\ LockEnabled(locked)
  /\ locked' = TRUE
  /\ col' = [col EXCEPT !.pc = "locked"]
  /\ UNCHANGED <<storeVars, wr, groups, fpVars, dsVars, authVars, loopVars, mainVars>>

\* s.Expire()
CollectExpire ==
  /\ col.pc = "locked"
  /\ fam' = Expire(fam, now)
  /\ col' = [col EXCEPT !.pc = "expired"]
  /\ UNCHANGED <<now, emitted, lastOp, nWrites, recorded, byLabels, firstAt, written,
                 locked, wr, groups, fpVars, dsVars, authVars, loopVars, mainVars>>

\* The loop over the families, sending each sample's metric.
CollectSend ==
  /\ col.pc = "expired"
  /\ emitted' = Collected(fam)
  /\ col' = [pc |-> "sent",
             seen |-> UNION {{<<name, key>> : key \in DOMAIN fam[name].Samples} :
                               name \in DOMAIN fam}]
  /\ lastOp' = "collect"
  /\ UNCHANGED <<fam, now, nWrites, recorded, byLabels, firstAt, written,
                 locked, wr, groups, fpVars, dsVars, authVars, loopVars, mainVars>>

\* The return of Collect, and the deferred s.Unlock()
CollectReturn ==
  /\ col.pc = "sent"
  /\ col' = [col EXCEPT !.pc = "idle"]
  /\ locked' = FALSE
  /\ UNCHANGED <<storeVars, wr, groups, fpVars, dsVars, authVars, loopVars, mainVars>>

ConcTick ==
  /\ \E d \in ClockSteps : now + d <= MaxNow /\ now' = now + d
  /\ UNCHANGED <<fam, emitted, lastOp, nWrites, recorded, byLabels, firstAt, written,
                 concVars, fpVars, dsVars, authVars, loopVars, mainVars>>

ConcNext ==
  \/ WriteCall \/ WriteLock \/ WriteField1 \/ WriteReturn
  \/ CollectCall \/ CollectLock \/ CollectExpire \/ CollectSend \/ CollectReturn
  \/ ConcTick

SpecConc == Start(FpStart, StoreDsStart, {AuthStart(0, "session")}, IdleWorker, IdleFleet, IdleLookup) /\ [][ConcNext]_vars

(***************************************************************************)
(* The session client, request by request.                                 *)
(***************************************************************************)

\* What a call has done is kept in result.log, one event for each request
\* sent (a GET with the headers it carried), each sleep (with its seconds)
\* and each return of Authenticate (with the time, and for a login that
\* succeeded the isicsrf cookie of its response as csrf, "" when it set none).
\* result.due tells that the call is a restGet that found the timer expired.
NoRequest == [csrf |-> "", basic |-> FALSE]
Event(ev, req, secs, what) ==
  [ev |-> ev, csrf |-> req.csrf, basic |-> req.basic, secs |-> secs, what |-> what]
AnswerKind(ans) == IF ans.err # Nil THEN "error" ELSE ans.status
SessionOf(a) ==
  [csrf |-> IF AuthOutcome(a) = "ok" /\ Deref(a.resp).cookie # Nil
            THEN Deref(Deref(a.resp).cookie) ELSE "",
   basic |-> FALSE]

NewCall(name) ==
  [call |-> name, outcome |-> "running", posts |-> 0, gets |-> 0, sleeps |-> <<>>,
   log |-> <<>>, due |-> FALSE]

\* Connect in session mode: c.Authenticate()
CallAuthenticate ==
  /\ ctl = "idle" /\ clock <= MaxClock
  /\ cluster.AuthType = "session"
  /\ result' = NewCall("authenticate")
  /\ authF' = AuthEntry("top")
  /\ ctl' = "auth_loop"
  /\ UNCHANGED <<cluster, getF, clock, jar, otherVars>>

\* One pass of the loop of Authenticate: the request, and after an error the
\* sleep and the doubling.
AuthDo ==
  /\ ctl = "auth_loop" /\ AuthLoopRuns(authF.i, cluster.maxRetries)
  /\ \E ans \in AuthAnswers :
       IF ans.err = Nil
       THEN /\ authF' = [authF EXCEPT !.resp = Some(ans), !.err = Nil, !.posts = @ + 1]
            /\ jar' = IF ans.cookie # Nil THEN ans.cookie ELSE jar
            /\ ctl' = "auth_after"
            /\ result' = [result EXCEPT
                            !.posts = @ + 1,
                            !.log = Append(@, Event("post", NoRequest, 0, AnswerKind(ans)))]
            /\ UNCHANGED clock
       ELSE /\ authF' = [authF EXCEPT !.err = ans.err, !.i = @ + 1,
                                      !.retrySecs = NextRetrySecs(@),
                                      !.posts = @ + 1,
                                      !.sleeps = Append(@, authF.retrySecs)]
            /\ clock' = clock + authF.retrySecs
            /\ result' = [result EXCEPT
                            !.posts = @ + 1,
                            !.sleeps = Append(@, authF.retrySecs),
                            !.log = @ \o <<Event("post", NoRequest, 0, AnswerKind(ans)),
                                           Event("sleep", NoRequest, authF.retrySecs, "auth")>>]
            /\ UNCHANGED <<jar, ctl>>
  /\ UNCHANGED <<cluster, getF, otherVars>>

\* The loop of Authenticate ends on its condition.
AuthLoopEnd ==
  /\ ctl = "auth_loop" /\ ~AuthLoopRuns(authF.i, cluster.maxRetries)
  /\ ctl' = "auth_after"
  /\ UNCHANGED <<cluster, authF, getF, clock, jar, result, otherVars>>

\* Authenticate from the end of its loop to its return, and what its caller
\* does with the outcome: Connect and restGet return its error; restGet goes
\* on to build its request after the login on the timer, and builds it anew
\* and continues its loop after the login on a 401.
AuthReturn ==
  /\ ctl = "auth_after"
  /\ LET out == AuthOutcome(authF)
         done == Event("login", SessionOf(authF), clock, out)
     IN  /\ cluster' = IF out = "ok"
                       THEN [cluster EXCEPT
                               !.reauthTime = clock + ReauthDelay(Deref(authF.resp).timeout),
                               !.csrfToken = TokenOf(jar)]
                       ELSE cluster
         /\ IF out = "panic"
            THEN /\ ctl' = "crashed"
                 /\ result' = [result EXCEPT !.outcome = out, !.log = Append(@, done)]
                 /\ UNCHANGED getF
            ELSE IF out # "ok" \/ authF.caller = "top"
            THEN /\ ctl' = "idle"
                 /\ result' = [result EXCEPT !.outcome = out, !.log = Append(@, done)]
                 /\ UNCHANGED getF
            ELSE IF authF.caller = "timer"
            THEN /\ ctl' = "get_loop"
                 /\ getF' = GetEntry(cluster')
                 /\ result' = [result EXCEPT !.log = Append(@, done)]
            ELSE /\ ctl' = "get_loop"
                 /\ getF' = [getF EXCEPT !.i = @ + 1, !.err = Nil,
                                         !.req = newGetRequest(cluster')]
                 /\ result' = [result EXCEPT !.log = Append(@, done)]
  /\ UNCHANGED <<authF, clock, jar, otherVars>>

\* restGet is called: in session mode past c.reauthTime it authenticates first.
CallGet ==
  /\ ctl = "idle" /\ clock <= MaxClock
  /\ result' = [NewCall("get") EXCEPT !.due = ReauthDue(cluster, clock)]
  /\ IF ReauthDue(cluster, clock)
     THEN authF' = AuthEntry("timer") /\ ctl' = "auth_loop" /\ UNCHANGED getF
     ELSE getF' = GetEntry(cluster) /\ ctl' = "get_loop" /\ UNCHANGED authF
  /\ UNCHANGED <<cluster, clock, jar, otherVars>>

\* One pass of the loop of restGet.
GetDo ==
  /\ ctl = "get_loop" /\ GetLoopRuns(getF.i, cluster.maxRetries)
  /\ \E ans \in GetAnswers :
       LET sent == Event("get", getF.req, 0,
                         IF ans.err # Nil THEN Deref(ans.err) ELSE ans.status)
       IN
       IF ans.err = Nil /\ ans.status = "200"
       THEN /\ getF' = [getF EXCEPT !.resp = Some(ans.status), !.err = Nil, !.gets = @ + 1]
            /\ ctl' = "get_after"
            /\ result' = [result EXCEPT !.gets = @ + 1, !.log = Append(@, sent)]
            /\ UNCHANGED <<authF, clock>>
       ELSE IF ans.err = Nil /\ ans.status = "401" /\ cluster.AuthType # "basic-auth"
       THEN /\ getF' = [getF EXCEPT !.resp = Some(ans.status), !.err = Nil,
                                    !.gets = @ + 1, !.reauths = @ + 1]
            /\ authF' = AuthEntry("unauth")
            /\ ctl' = "auth_loop"
            /\ result' = [result EXCEPT !.gets = @ + 1, !.log = Append(@, sent)]
            /\ UNCHANGED clock
       ELSE IF ans.err = Nil
       THEN /\ getF' = [getF EXCEPT !.resp = Some(ans.status), !.err = Nil, !.gets = @ + 1]
            /\ ctl' = "idle"
            /\ result' = [result EXCEPT
                            !.gets = @ + 1,
                            !.outcome = IF ans.status = "401" THEN "basic_auth_failed"
                                        ELSE "unexpected_status",
                            !.log = Append(@, sent)]
            /\ UNCHANGED <<authF, clock>>
       ELSE IF ~isConnectionRefused(ans.err)
       THEN /\ getF' = [getF EXCEPT !.err = ans.err, !.gets = @ + 1]
            /\ ctl' = "idle"
            /\ result' = [result EXCEPT !.gets = @ + 1, !.outcome = "transport_error",
                                        !.log = Append(@, sent)]
            /\ UNCHANGED <<authF, clock>>
       ELSE /\ getF' = [getF EXCEPT !.err = ans.err, !.i = @ + 1,
                                    !.retrySecs = NextRetrySecs(@),
                                    !.gets = @ + 1,
                                    !.sleeps = Append(@, getF.retrySecs)]
            /\ clock' = clock + getF.retrySecs
            /\ result' = [result EXCEPT
                            !.gets = @ + 1,
                            !.sleeps = Append(@, getF.retrySecs),
                            !.log = @ \o <<sent, Event("sleep", NoRequest, getF.retrySecs, "get")>>]
            /\ UNCHANGED <<authF, ctl>>
  /\ UNCHANGED <<cluster, jar, otherVars>>

\* The loop of restGet ends on its condition.
GetLoopEnd ==
  /\ ctl = "get_loop" /\ ~GetLoopRuns(getF.i, cluster.maxRetries)
  /\ ctl' = "get_after"
  /\ UNCHANGED <<cluster, authF, getF, clock, jar, result, otherVars>>

\* restGet from the end of its loop to its return.
GetReturn ==
  /\ ctl = "get_after"
  /\ result' = [result EXCEPT !.outcome = GetOutcome(getF)]
  /\ ctl' = IF GetOutcome(getF) = "panic" THEN "crashed" ELSE "idle"
  /\ UNCHANGED <<cluster, authF, getF, clock, jar, otherVars>>

\* Time passes between two calls.
Elapse ==
  /\ ctl = "idle"
  /\ \E d \in ElapseSteps : clock + d <= MaxClock /\ clock' = clock + d
  /\ UNCHANGED <<cluster, authF, getF, ctl, jar, result, otherVars>>

AuthNext ==
  \/ CallAuthenticate \/ AuthDo \/ AuthLoopEnd \/ AuthReturn
  \/ CallGet \/ GetDo \/ GetLoopEnd \/ GetReturn
  \/ Elapse

SpecAuth == Start(FpStart, DsStart, AuthStarts, IdleWorker, IdleFleet, IdleLookup) /\ [][AuthNext]_vars

\* Connect alone, again and again, with retry ceilings that let the sleeps
\* of one login grow to the cap.
LoginNext == CallAuthenticate \/ AuthDo \/ AuthLoopEnd \/ AuthReturn \/ Elapse

SpecLogin ==
  Start(FpStart, DsStart, {AuthStart(n, "session") : n \in LoginCeilings}, IdleWorker, IdleFleet, IdleLookup)
  /\ [][LoginNext]_vars

(***************************************************************************)
(* The polling loop of statsloop, against the DBWriter interface.          *)
(***************************************************************************)

\* The dataset the range over di.Datasets is at.
CurrentDs == worker.di[worker.idx].Name

\* Expiration: now.Add(30 * time.Second), in WritePPStats
SampleExpiration(t) == t + SampleTTL

\* The expirations of the datasets that are in the list of the new pass.
Kept(expires, datasets) ==
  [n \in DOMAIN expires \cap {datasets[j].Name : j \in 1..Len(datasets)} |-> expires[n]]

\* A faulty variant: the range does not leave its first dataset.
NextDatasetStays(w) ==
  IF w.idx < Len(w.di) THEN [w EXCEPT !.idx = IF @ = 0 THEN 1 ELSE @, !.pc = "read"]
  ELSE [w EXCEPT !.pc = "cadence"]

\* The range over di.Datasets moves on from its place, in the worker w.
NextDataset(w) ==
  IF w.idx < Len(w.di) THEN [w EXCEPT !.idx = @ + 1, !.pc = "read"]
  ELSE [w EXCEPT !.pc = "cadence"]

\* The top of the loop: curTime and nextTime, then c.GetDataSetInfo(); on an
\* error the worker returns, otherwise ss.UpdateDatasets(di) and the locals
\* of the collection.
FetchDatasets ==
  /\ worker.pc = "top" /\ worker.cycle < MaxCycles
  /\ \E ans \in DatasetAnswers, d \in CallSecs :
       LET begun == [worker EXCEPT !.cycle = @ + 1, !.curTime = worker.time,
                                   !.nextTime = worker.time + PPSampleRate,
                                   !.time = @ + d,
                                   !.err = ans.err]
       IN  IF Bails(ans.err)
           THEN /\ worker' = [begun EXCEPT !.pc = "ended"]
                /\ history' = <<LoopEvent("datasets", "", FALSE, 0)>>
           ELSE /\ worker' = NextDataset([begun EXCEPT !.di = ans.Datasets, !.idx = 0,
                                                       !.sr = <<>>, !.readFailCount = 0,
                                                       !.retryTime = readRetryTime,
                                                       !.expires = Kept(@, ans.Datasets),
                                                       !.before = Nil])
                /\ history' = <<LoopEvent("datasets", "", ans.err = Nil, 0),
                                LoopEvent("sync", "", TRUE, 0)>>
  /\ UNCHANGED <<fpVars, dsVars, storeVars, concVars, authVars, mainVars>>

\* One pass of the loop around c.GetPPStats(dsName): on an error the sleep
\* and the doubling, otherwise on to the loop of writes.
ReadStats ==
  /\ worker.pc = "read"
  /\ \E ans \in StatsAnswers :
       IF ReadDone(ans.err)
       THEN /\ worker' = [worker EXCEPT !.sr = ans.sr, !.err = ans.err,
                                        !.retryTime = worker.gc.ProcessorRetryIntvl,
                                        !.i = 1, !.pc = "write"]
            /\ history' = Append(history, LoopEvent("read", CurrentDs, ans.err = Nil, 0))
       ELSE /\ worker.readFailCount < MaxReadFails
            /\ worker' = [worker EXCEPT !.err = ans.err, !.readFailCount = @ + 1,
                                        !.time = @ + worker.retryTime,
                                        !.retryTime = NextRetryTime(@)]
            /\ history' = history \o <<LoopEvent("read", CurrentDs, FALSE, 0),
                                       LoopEvent("sleep", CurrentDs, TRUE, worker.retryTime)>>
  /\ UNCHANGED <<fpVars, dsVars, storeVars, concVars, authVars, mainVars>>

\* One pass of the loop around ss.WritePPStats(ds, sr).
WriteStatsTry ==
  /\ worker.pc = "write" /\ WriteLoopRuns(worker.i, worker.gc)
  /\ \E err \in WriteAnswers :
       IF err = Nil
       THEN /\ worker' = [worker EXCEPT !.err = Nil, !.pc = "written",
                                        !.before = IF CurrentDs \in DOMAIN worker.expires
                                                   THEN Some(worker.expires[CurrentDs])
                                                   ELSE Nil,
                                        !.expires = IF worker.watched
                                                    THEN Put(@, CurrentDs, SampleExpiration(worker.time))
                                                    ELSE @]
            /\ history' = Append(history, LoopEvent("write", CurrentDs, TRUE, 0))
       ELSE /\ worker' = [worker EXCEPT !.err = err, !.i = @ + 1,
                                        !.time = @ + worker.retryTime,
                                        !.retryTime = NextRetryTime(@)]
            /\ history' = history \o <<LoopEvent("write", CurrentDs, FALSE, 0),
                                       LoopEvent("sleep", CurrentDs, TRUE, worker.retryTime)>>
  /\ UNCHANGED <<fpVars, dsVars, storeVars, concVars, authVars, mainVars>>

\* After the loop of writes: the worker returns on an error, otherwise the
\* range moves to the next dataset.
WriteStatsEnd ==
  /\ \/ worker.pc = "written"
     \/ worker.pc = "write" /\ ~WriteLoopRuns(worker.i, worker.gc)
  /\ worker' = IF worker.err # Nil THEN [worker EXCEPT !.pc = "ended"]
               ELSE NextDataset(worker)
  /\ UNCHANGED <<history, fpVars, dsVars, storeVars, concVars, authVars, mainVars>>

\* The end of the pass: the sleep to nextTime when it is still ahead.
Cadence ==
  /\ worker.pc = "cadence"
  /\ LET secs == CadenceSleep(worker.time, worker.nextTime)
     IN  /\ worker' = [worker EXCEPT !.time = @ + secs, !.pc = "top"]
         /\ history' = IF secs # 0
                       THEN Append(history, LoopEvent("sleep", "", TRUE, secs))
                       ELSE history
  /\ UNCHANGED <<fpVars, dsVars, storeVars, concVars, authVars, mainVars>>

LoopNext == FetchDatasets \/ ReadStats \/ WriteStatsTry \/ WriteStatsEnd \/ Cadence

SpecLoop ==
  Start(FpStart, DsStart, {AuthStart(0, "session")}, WorkerStarts, IdleFleet, IdleLookup)
  /\ [][LoopNext]_vars

\* The loop of a worker with the expirations its writes leave in the sink.
SpecTtl ==
  Start(FpStart, DsStart, {AuthStart(0, "session")}, WatchedStarts, IdleFleet, IdleLookup)
  /\ [][LoopNext]_vars

(***************************************************************************)
(* main and its workers.                                                   *)
(***************************************************************************)

\* The process runs: no goroutine has panicked and main has not returned.
Alive == ~fleet.crashed /\ fleet.pc # "exited"

\* The goroutine of cluster ci returns from statsloop for the reason why:
\* the deferred wg.Done() runs.
WorkerEnds(ci, why) ==
  [fleet EXCEPT !.w[ci] = [@ EXCEPT !.state = "ended", !.why = why], !.wg = @ - 1]

\* One pass of main's range over conf.Clusters: a disabled cluster is passed
\* over, for another wg.Add(1) and the go statement.
Spawn ==
  /\ Alive /\ fleet.pc = "range" /\ fleet.ci <= Len(fleet.conf.Clusters)
  /\ fleet' = IF Skipped(fleet.conf.Clusters[fleet.ci])
              THEN [fleet EXCEPT !.ci = @ + 1]
              ELSE [fleet EXCEPT !.ci = @ + 1, !.wg = @ + 1,
                                 !.w[fleet.ci].state = "spawned"]
  /\ UNCHANGED <<fpVars, dsVars, storeVars, concVars, authVars, loopVars, lookup, parse, hold>>

\* The range of main is over: wg.Wait()
RangeEnds ==
  /\ Alive /\ fleet.pc = "range" /\ fleet.ci > Len(fleet.conf.Clusters)
  /\ fleet' = [fleet EXCEPT !.pc = "wait"]
  /\ UNCHANGED <<fpVars, dsVars, storeVars, concVars, authVars, loopVars, lookup, parse, hold>>

\* statsloop from its entry to its polling loop: the checks of the
\* configuration, c.Connect(), getDBWriter and ss.Init. Each failure returns.
WorkerSetup ==
  /\ Alive
  /\ \E ci \in 1..Len(fleet.w) :
       /\ fleet.w[ci].state = "spawned"
       /\ \E out \in ConnectOutcomes(fleet.conf.MaxRetries,
                                      fleet.conf.Clusters[ci].AuthType)
                      \cup {"credentials"} :
            \E sink \in SinkOutcomes(fleet.conf, fleet.conf.Clusters[ci]) :
              fleet' = IF out = "panic" THEN [fleet EXCEPT !.crashed = TRUE]
                       ELSE IF out = "error" THEN WorkerEnds(ci, "connect")
                       ELSE IF out # "ok" THEN WorkerEnds(ci, out)
                       ELSE IF sink = "ok" THEN [fleet EXCEPT !.w[ci].state = "running"]
                       ELSE WorkerEnds(ci, sink)
  /\ UNCHANGED <<fpVars, dsVars, storeVars, concVars, authVars, loopVars, lookup, parse, hold>>

\* One pass of the polling loop of a worker: it ends on a failed fetch of
\* the datasets or on the exhaustion of the write retries, and goes on
\* otherwise.
WorkerPass ==
  /\ Alive
  /\ \E ci \in 1..Len(fleet.w) :
       /\ fleet.w[ci].state = "running" /\ fleet.w[ci].passes < MaxCycles
       /\ \E out \in {"ok", "datasets", "write"} :
            fleet' = IF out = "ok" THEN [fleet EXCEPT !.w[ci].passes = @ + 1]
                     ELSE WorkerEnds(ci, out)
  /\ UNCHANGED <<fpVars, dsVars, storeVars, concVars, authVars, loopVars, lookup, parse, hold>>

\* wg.Wait() returns when the counter is zero, and main returns.
MainExits ==
  /\ Alive /\ fleet.pc = "wait" /\ fleet.wg = 0
  /\ fleet' = [fleet EXCEPT !.pc = "exited"]
  /\ UNCHANGED <<fpVars, dsVars, storeVars, concVars, authVars, loopVars, lookup, parse, hold>>

MainNext == Spawn \/ RangeEnds \/ WorkerSetup \/ WorkerPass \/ MainExits

SpecMain ==
  Start(FpStart, DsStart, {AuthStart(0, "session")}, IdleWorker, FleetStarts, IdleLookup)
  /\ [][MainNext]_vars

(***************************************************************************)
(* Export-id lookup: the stats of a worker tagged one after the other.     *)
(*                                                                         *)
(* lookup.exports is the sink's export map, remote the first path the      *)
(* cluster holds for each export id now, calls the ids GetExportPathById   *)
(* was called with, in order, and tagged the export id and the export_path *)
(* tag of each stat tagged so far.                                         *)
(***************************************************************************)

\* tagsForPPStat for one stat, with or without an export id.
TagStat ==
  /\ Len(lookup.tagged) < MaxSamples
  /\ \E eid \in {Nil} \cup {Some(id) : id \in ExportIds} :
       LET ppstat == [Stat(1, Nil, Some("nfs"), 10, 100) EXCEPT !.ExportID = eid]
           api    == LooksUp(ppstat, lookup.exports)
           looked == IF api THEN lookup.remote[Deref(eid)] ELSE Nil
           tags   == tagsForPPStat(ppstat, lookup.exports, looked)
       IN  lookup' = [lookup EXCEPT
             !.exports = ExportsAfter(ppstat, lookup.exports, looked),
             !.calls   = IF api THEN Append(@, Deref(eid)) ELSE @,
             !.tagged  = Append(@, [id   |-> eid,
                                    path |-> IF "export_path" \in DOMAIN tags
                                             THEN Some(tags["export_path"]) ELSE Nil])]
  /\ UNCHANGED <<fpVars, dsVars, storeVars, concVars, authVars, loopVars, fleet, parse, hold>>

\* The administrator of the cluster changes the paths of an export, or the
\* export's lookup starts or stops failing.
RemoteChanges ==
  /\ \E id \in ExportIds, a \in ExportAnswers :
       /\ a # lookup.remote[id]
       /\ lookup' = [lookup EXCEPT !.remote[id] = a]
  /\ UNCHANGED <<fpVars, dsVars, storeVars, concVars, authVars, loopVars, fleet, parse, hold>>

ExportsNext == TagStat \/ RemoteChanges

SpecExports ==
  Start(FpStart, DsStart, {AuthStart(0, "session")}, IdleWorker, IdleFleet, LookupStarts)
  /\ [][ExportsNext]_vars

(***************************************************************************)
(* A response of the workload endpoint from its decoding to the values     *)
(* WritePPStats records. parse.pc is "idle", "failed" when GetPPStats      *)
(* returned an error, "parsed", "recorded" when every value was made into  *)
(* a Sample, "panicked" when the type assertion failed.                    *)
(***************************************************************************)

\* GetPPStats: the response is decoded by parsePPStatResult.
DecodeResponse ==
  /\ parse.pc = "idle"
  /\ \E res \in Responses :
       LET out == parsePPStatResult(res)
       IN  parse' = [parse EXCEPT !.pc = IF out.err # Nil THEN "failed" ELSE "parsed",
                                  !.res = res, !.results = out.results]
  /\ UNCHANGED <<fpVars, dsVars, storeVars, concVars, authVars, loopVars, fleet, lookup, hold>>

\* The loops of WritePPStats over the batch and over ppFixedFields: the value
\* of each field is asserted to be a float64, and the call panics otherwise.
RecordValues ==
  /\ parse.pc = "parsed"
  /\ LET maps == [k \in 1..Len(parse.results) |-> fieldsForPPStat(parse.results[k])]
         ok == \A k \in 1..Len(maps) : \A i \in 1..Len(ppFixedFields) :
                 IsFloat64(maps[k], ppFixedFields[i])
     IN  parse' = [parse EXCEPT !.pc = IF ok THEN "recorded" ELSE "panicked",
                                !.values = IF ok THEN maps ELSE <<>>]
  /\ UNCHANGED <<fpVars, dsVars, storeVars, concVars, authVars, loopVars, fleet, lookup, hold>>

ParseNext == DecodeResponse \/ RecordValues

SpecParse ==
  Start(FpStart, DsStart, {AuthStart(0, "session")}, IdleWorker, IdleFleet, IdleLookup)
  /\ [][ParseNext]_vars

(***************************************************************************)
(* The sink's mutex around WritePPStats when it looks export ids up.       *)
(*                                                                         *)
(* hold.wpc is the position of the worker: "init" before the sink's Init,  *)
(* "idle", "want" at s.Lock(), "tags" at tagsForPPStat for the stat k of   *)
(* the batch, "get" at c.client.Do of the restGet under GetExportPathById, *)
(* "sleep" at the time.Sleep of its back-off. hold.cpc is the position of  *)
(* the scrape: "idle", "want" at s.Lock(), "run" in Collect.               *)
(***************************************************************************)

\* PrometheusSink.Init: s.exports = newExportMap(gc.LookupExportIds), for a
\* cluster with its max_retries.
HoldInit ==
  /\ hold.wpc = "init"
  /\ \E enabled \in BOOLEAN, n \in HoldCeilings :
       hold' = [hold EXCEPT !.wpc = "idle", !.exports = newExportMap(enabled),
                            !.maxRetries = n]
  /\ UNCHANGED <<fpVars, dsVars, storeVars, concVars, authVars, loopVars, fleet, lookup, parse>>

\* statsloop calls ss.WritePPStats with the batch it fetched.
HoldCall ==
  /\ hold.wpc = "idle"
  /\ \E batch \in HoldBatches : hold' = [hold EXCEPT !.wpc = "want", !.batch = batch]
  /\ UNCHANGED <<fpVars, dsVars, storeVars, concVars, authVars, loopVars, fleet, lookup, parse>>

\* s.Lock(); defer s.Unlock()
HoldLock ==
  /\ hold.wpc = "want" /\ LockEnabled(hold.locked)
  /\ hold' = [hold EXCEPT !.wpc = "tags", !.locked = TRUE, !.k = 1]
  /\ UNCHANGED <<fpVars, dsVars, storeVars, concVars, authVars, loopVars, fleet, lookup, parse>>

\* One pass of the loop over ppstats up to tagsForPPStat, which calls
\* cluster.GetExportPathById or not; after the last stat, return nil and the
\* deferred s.Unlock().
HoldTags ==
  /\ hold.wpc = "tags"
  /\ hold' = IF hold.k > Len(hold.batch)
             THEN [hold EXCEPT !.wpc = "idle", !.locked = FALSE, !.batch = <<>>, !.k = 0]
             ELSE IF LooksUp(hold.batch[hold.k], hold.exports)
             THEN [hold EXCEPT !.wpc = "get", !.i = 1]
             ELSE [hold EXCEPT !.k = @ + 1]
  /\ UNCHANGED <<fpVars, dsVars, storeVars, concVars, authVars, loopVars, fleet, lookup, parse>>

\* One pass of the loop of restGet: c.client.Do(req) answers; a refused
\* connection is slept on and retried, any other answer ends the lookup; and
\* the loop ends when its counter reaches the ceiling.
HoldGet ==
  /\ hold.wpc = "get"
  /\ \E err \in {Nil, Some("refused"), Some("other")} :
       hold' = IF GetLoopRuns(hold.i, hold.maxRetries) /\ isConnectionRefused(err)
               THEN [hold EXCEPT !.wpc = "sleep"]
               ELSE [hold EXCEPT !.wpc = "tags", !.k = @ + 1, !.i = 0]
  /\ UNCHANGED <<fpVars, dsVars, storeVars, concVars, authVars, loopVars, fleet, lookup, parse>>

\* time.Sleep(time.Duration(retrySecs) * time.Second) returns.
HoldSleep ==
  /\ hold.wpc = "sleep"
  /\ hold' = [hold EXCEPT !.wpc = "get", !.i = @ + 1]
  /\ UNCHANGED <<fpVars, dsVars, storeVars, concVars, authVars, loopVars, fleet, lookup, parse>>

\* A scrape calls Collect and waits for the mutex.
ScrapeCall ==
  /\ hold.wpc # "init" /\ hold.cpc = "idle"
  /\ hold' = [hold EXCEPT !.cpc = "want"]
  /\ UNCHANGED <<fpVars, dsVars, storeVars, concVars, authVars, loopVars, fleet, lookup, parse>>

\* s.Lock() of Collect
ScrapeLock ==
  /\ hold.cpc = "want" /\ LockEnabled(hold.locked)
  /\ hold' = [hold EXCEPT !.cpc = "run", !.locked = TRUE]
  /\ UNCHANGED <<fpVars, dsVars, storeVars, concVars, authVars, loopVars, fleet, lookup, parse>>

\* The return of Collect and its deferred s.Unlock()
ScrapeReturn ==
  /\ hold.cpc = "run"
  /\ hold' = [hold EXCEPT !.cpc = "idle", !.locked = FALSE]
  /\ UNCHANGED <<fpVars, dsVars, storeVars, concVars, authVars, loopVars, fleet, lookup, parse>>

HoldNext ==
  \/ HoldInit \/ HoldCall \/ HoldLock \/ HoldTags \/ HoldGet \/ HoldSleep
  \/ ScrapeCall \/ ScrapeLock \/ ScrapeReturn

SpecHold ==
  Start(FpStart, DsStart, {AuthStart(0, "session")}, IdleWorker, IdleFleet, IdleLookup)
  /\ [][HoldNext]_vars

(***************************************************************************)
(* Claims.                                                                 *)
(***************************************************************************)

\* C6: CreateSampleID is deterministic and independent of the iteration
\* order: whatever order the range loop takes over the label map, the
\* fingerprint is the one returned.
C6_OrderIndependent ==
  \A order \in KeyOrders(fpTags) : CreateSampleID(fpTags, order) = fpID

\* C6 witness: a fingerprint of a map of three labels, computed from an
\* order that is not the sorted one.
C6_Witness ==
  /\ Cardinality(DOMAIN fpTags) = 3
  /\ TagPairs(fpTags, fpOrder) # SortStrings(TagPairs(fpTags, fpOrder))
  /\ fpID = Join(SortStrings(TagPairs(fpTags, fpOrder)), ",")

\* The events of the last call that are of kind op for dataset id.
EventsOf(op, id) == {i \in 1..Len(dsEvents) : dsEvents[i].op = op /\ dsEvents[i].id = id}

\* Dataset id is in the last list and in none before it.
FirstSeen(id) == id \in IdsOf(dsFetched) /\ id \notin dsSeen

C8_HeldMatchesFetched ==
  dsm.made =>
    /\ (DOMAIN dsm.map) \ {0} = IdsOf(dsFetched) \ {0}
    /\ \A i \in 1..Len(dsFetched) :
         dsFetched[i].Id # 0 /\ dsFetched[i].Id \in DOMAIN dsm.map =>
           dsm.map[dsFetched[i].Id].ds.CreationTime = dsFetched[i].CreationTime

\* C9 as claimed: a non-zero id held and fetched with another creation time
\* gets a delete followed by a create, and holds the new definition as a
\* create on an empty slot leaves it; with the same creation time it gets no
\* event and keeps its creation time.
C9_ReplaceIsDeleteCreate ==
  \A i \in 1..Len(dsFetched) :
    LET id == dsFetched[i].Id
        fresh == CreateDataset([dsm |-> [made |-> TRUE, map |-> EmptyMap], ev |-> <<>>],
                               id, dsFetched[i], exports).dsm.map[id]
    IN  id # 0 /\ id \in DOMAIN dsPrev /\ ~dsFirst =>
          IF dsPrev[id] # dsFetched[i].CreationTime
          THEN /\ \E d \in EventsOf("delete", id) : \E c \in EventsOf("create", id) :
                    d < c /\ EventsOf("delete", id) = {d} /\ EventsOf("create", id) = {c}
               /\ dsm.map[id] = fresh
          ELSE /\ EventsOf("delete", id) = {} /\ EventsOf("create", id) = {}
               /\ dsm.map[id].ds.CreationTime = dsPrev[id]

\* The families recorded into.
RecordedNames == {p[1] : p \in DOMAIN recorded}

\* The fingerprints recorded in family name.
RecordedIDs(name) == {p[2] : p \in {q \in DOMAIN recorded : q[1] = name}}

\* The number of metrics of family name the last Collect sent.
EmittedCount(name) ==
  BagCardinality([r \in {q \in DOMAIN emitted : q.name = name} |-> emitted[r]])

\* The sent metric r is that of the sample: its family, value and timestamp,
\* and each of its labels.
Matches(r, name, sample) ==
  /\ r.name = name
  /\ r.value = sample.Value
  /\ r.timestamp = sample.Timestamp
  /\ \A k \in DOMAIN sample.Labels : k \in DOMAIN r.labels /\ r.labels[k] = sample.Labels[k]

\* C1: a Collect made before the time-to-live of any recording has elapsed
\* sends, for each family, one metric per fingerprint recorded in it, and the
\* metric of a fingerprint is that of its latest recording.
C1_OnePerFingerprintLatest ==
  (lastOp = "collect" /\ firstAt >= 0 /\ now <= firstAt + SampleTTL) =>
    /\ \A name \in RecordedNames : EmittedCount(name) = Cardinality(RecordedIDs(name))
    /\ \A p \in DOMAIN recorded : \E r \in DOMAIN emitted : Matches(r, p[1], recorded[p])
    /\ \A r \in DOMAIN emitted : \E p \in DOMAIN recorded : Matches(r, p[1], recorded[p])

\* C1 witness: a Collect before any deadline, after a fingerprint was recorded
\* a second time, later and with another value, and its metric was sent.
C1_Witness ==
  /\ lastOp = "collect" /\ firstAt >= 0 /\ now <= firstAt + SampleTTL
  /\ nWrites = MaxWrites
  /\ \E p \in DOMAIN recorded :
       /\ recorded[p].Value = 30
       /\ recorded[p].Expiration > firstAt + SampleTTL
       /\ \E r \in DOMAIN emitted : Matches(r, p[1], recorded[p])

\* The fingerprints of family name whose latest recording has not expired.
LiveIDs(name) == {id \in RecordedIDs(name) : ~Expired(recorded[<<name, id>>], now)}

\* C2: after a Collect the store holds no fingerprint whose latest recording
\* has expired and no metric was sent for it; a family whose fingerprints
\* have all expired is removed from the store and nothing was sent for it.
C2_ExpiredNotEmitted ==
  lastOp = "collect" =>
    \A name \in RecordedNames :
      /\ EmittedCount(name) = Cardinality(LiveIDs(name))
      /\ IF LiveIDs(name) = {}
         THEN name \notin DOMAIN fam
         ELSE name \in DOMAIN fam /\ DOMAIN fam[name].Samples = LiveIDs(name)

\* C2 witness: a Collect that removed one family whole and kept another.
C2_Witness ==
  /\ lastOp = "collect"
  /\ \E name \in RecordedNames : LiveIDs(name) = {} /\ name \notin DOMAIN fam
  /\ \E name \in RecordedNames : LiveIDs(name) # {} /\ EmittedCount(name) > 0

\* C3 as claimed: two samples of a family with different label maps occupy
\* distinct entries and a Collect sends both: after a Collect, each label map
\* recorded in a family and not yet expired has its metric among those sent.
C3_DistinctLabelsDistinctEntries ==
  lastOp = "collect" =>
    \A p \in DOMAIN byLabels :
      ~Expired(byLabels[p], now) =>
        \E r \in DOMAIN emitted : Matches(r, p[1], byLabels[p])

\* C4 as claimed: the usage counter of a label key in a family is the number
\* of the family's samples whose label map holds the key.
C4_CounterIsUsage ==
  \A name \in DOMAIN fam : \A k \in DOMAIN fam[name].LabelSet :
    fam[name].LabelSet[k]
      = Cardinality({id \in DOMAIN fam[name].Samples :
                       k \in DOMAIN fam[name].Samples[id].Labels})

\* The worker is between the return of s.Lock() and its s.Unlock().
WriterInCS == wr.pc = "run"

\* The scrape is between the return of s.Lock() and its s.Unlock().
CollectorInCS == col.pc \in {"locked", "expired", "sent"}

\* C5: WritePPStats and Collect are never in their critical sections at the
\* same time, and a Collect sees none or all of a batch: of each stat written
\* it sent the metrics of all its per-field families or of none.
C5_ExclusionAndWholeBatches ==
  /\ ~(WriterInCS /\ CollectorInCS)
  /\ \A g \in groups : g \cap col.seen = {} \/ g \subseteq col.seen

\* C5 witness: a Collect has sent the metrics of a whole stat while the worker
\* waits for the mutex with its next batch.
C5_Witness ==
  /\ col.pc = "sent" /\ wr.pc = "want"
  /\ \E g \in groups : Cardinality(g) = Len(ppFixedFields) /\ g \subseteq col.seen

\* C10 as claimed: with a retry ceiling <= 0, authenticate and get do not end
\* on a retry-exhausted error nor without having sent a request: a call that
\* has ended has sent a request and has not given up retrying.
C10_UnlimitedRetries ==
  (cluster.maxRetries <= 0 /\ result.outcome \notin {"none", "running"}) =>
    /\ result.posts + result.gets >= 1
    /\ result.outcome \notin {"max_retries_exceeded", "connection_refused", "panic"}

RECURSIVE Pow2(_)
Pow2(n) == IF n = 0 THEN 1 ELSE 2 * Pow2(n - 1)

Smaller(a, b) == IF a < b THEN a ELSE b

\* C11: during one authenticate the sleep after the k-th failed request in a
\* row is min(2^(k-1), 1800) seconds: 1, 2, 4, ... and never above 1800.
C11_SleepsDoubleToCap ==
  \A k \in 1..Len(authF.sleeps) :
    /\ authF.sleeps[k] = Smaller(Pow2(k - 1), 1800)
    /\ authF.sleeps[k] <= 1800

\* C11 witness: a login has slept 1, 2 and 4 seconds and then on to the
\* twelfth sleep, the first one the cap cuts.
C11_Witness ==
  /\ Len(authF.sleeps) = 12
  /\ SubSeq(authF.sleeps, 1, 3) = <<1, 2, 4>>
  /\ authF.sleeps[11] = 1024 /\ authF.sleeps[12] = 1800

\* C12: with a retry ceiling N > 0 one authenticate sends at most N login
\* requests, and when all N have failed it returns the retry-exhausted error
\* and leaves the CSRF token and the reauthentication deadline as they were.
C12_CeilingBoundsLogins ==
  [][cluster.maxRetries > 0 =>
       /\ authF'.posts <= cluster.maxRetries
       /\ (ctl = "auth_after" /\ authF.err # Nil) =>
            /\ authF.posts = cluster.maxRetries
            /\ ctl' = "idle"
            /\ result'.outcome = "max_retries_exceeded"
            /\ cluster'.csrfToken = cluster.csrfToken
            /\ cluster'.reauthTime = cluster.reauthTime]_vars

\* C12 witness: a cluster with ceiling 3 that holds the token of a login has
\* authenticated again, sent three requests that all failed, and returned
\* the retry-exhausted error; it still holds the token.
C12_Witness ==
  /\ cluster.maxRetries = 3 /\ authF.posts = 3 /\ authF.err # Nil
  /\ ctl = "idle" /\ result.outcome = "max_retries_exceeded"
  /\ cluster.csrfToken = "t1" /\ cluster.reauthTime > 0

\* C13 as claimed: get retries a refused connection with the sleeps 1, 2, 4,
\* ... capped at 1800, and with a retry ceiling N > 0 a get whose requests
\* are all refused has sent N of them, as many as authenticate, when its
\* loop gives up.
C13_GetRetriesLikeLogin ==
  /\ \A k \in 1..Len(getF.sleeps) : getF.sleeps[k] = Smaller(Pow2(k - 1), 1800)
  /\ (cluster.maxRetries > 0 /\ result.call = "get" /\ ctl = "get_after"
        /\ getF.reauths = 0 /\ (getF.err # Nil \/ getF.resp = Nil))
       => getF.gets = cluster.maxRetries

\* The events of the call so far that are GET requests.
GetsOf(log) == SelectSeq(log, LAMBDA e : e.ev = "get")

\* C14 as claimed: in session mode one get asks for at most one login on a
\* 401 answer, and after that login the GET is sent again: the call does not
\* end on the 401 that made it log in.
C14_OneReauthPerGet ==
  (result.call = "get" /\ cluster.AuthType = "session") =>
    /\ getF.reauths <= 1
    /\ (ctl = "get_after" /\ getF.reauths = 1 /\ result.log # <<>>)
         => result.log[Len(result.log)].ev = "get"

\* C15: in basic mode authenticate is never run, neither by connect nor by
\* get, and a 401 answer ends the get at once with the authentication error:
\* the 401 is the last thing the call did, with no login, sleep or request
\* after it.
C15_BasicNeverLogsIn ==
  cluster.AuthType = "basic-auth" =>
    /\ ctl \notin {"auth_loop", "auth_after"}
    /\ authF.caller = "none" /\ result.posts = 0 /\ getF.reauths = 0
    /\ \A k \in 1..Len(result.log) :
         /\ result.log[k].ev # "login"
         /\ (result.log[k].ev = "get" /\ result.log[k].what = "401") =>
              /\ k = Len(result.log)
              /\ ctl = "idle" /\ result.outcome = "basic_auth_failed"

\* C15 witness: in basic mode a get was refused once, slept, sent its
\* request again and failed on the 401 it received.
C15_Witness ==
  /\ cluster.AuthType = "basic-auth" /\ result.outcome = "basic_auth_failed"
  /\ Len(result.log) = 3
  /\ result.log[1].what = "refused" /\ result.log[2].ev = "sleep"
  /\ result.log[3].what = "401" /\ result.log[3].basic

\* The errors Authenticate returns.
LoginErrors == {"max_retries_exceeded", "auth_failed", "parse_error"}

C17_OtherFailuresAreFinal ==
  result.call = "get" =>
    \A k \in 1..Len(result.log) :
      (result.log[k].ev = "get" /\ result.log[k].what \in {"503", "other"}) =>
        /\ k = Len(result.log)
        /\ ctl = "idle"
        /\ result.outcome = IF result.log[k].what = "503" THEN "unexpected_status"
                             ELSE "transport_error"

\* C17 witness: a get was refused once, slept, sent its request again and
\* failed on a transport error that was not a refused connection.
C17_Witness ==
  /\ result.call = "get" /\ result.outcome = "transport_error"
  /\ Len(result.log) = 3
  /\ result.log[1].what = "refused" /\ result.log[2].ev = "sleep"
  /\ result.log[3].ev = "get" /\ result.log[3].what = "other"

\* The step is the return of an Authenticate that succeeded.
LoginSucceeds ==
  /\ ctl = "auth_after" /\ Len(result'.log) = Len(result.log) + 1
  /\ result'.log[Len(result'.log)].ev = "login"
  /\ result'.log[Len(result'.log)].what = "ok"

\* The absolute timeout of the session: the one the login response returned,
\* 14400 seconds when it returned none.
SessionTimeout == IF Deref(authF.resp).timeout # Nil THEN Deref(Deref(authF.resp).timeout) ELSE 14400

\* C18 as claimed: a successful authenticate sets the reauthentication
\* deadline to the authentication time plus the session timeout minus 60
\* seconds, whatever the timeout.
C18_Original ==
  [][LoginSucceeds => cluster'.reauthTime = clock + SessionTimeout - 60]_vars

\* C18: a successful authenticate sets the reauthentication deadline to the
\* authentication time plus the session timeout, minus 60 seconds when the
\* timeout is above 60 seconds and minus nothing when it is not.
C18_GraceAbove60 ==
  [][LoginSucceeds =>
       cluster'.reauthTime =
         clock + (IF SessionTimeout > 60 THEN SessionTimeout - 60 ELSE SessionTimeout)]_vars

\* C18 witness: a login whose response gave a timeout of 61 seconds has
\* returned, and the deadline is one second after it.
C18_Witness ==
  /\ result.log # <<>>
  /\ result.log[Len(result.log)].ev = "login" /\ result.log[Len(result.log)].what = "ok"
  /\ authF.resp # Nil /\ Deref(authF.resp).timeout = Some(61)
  /\ cluster.reauthTime = result.log[Len(result.log)].secs + 1

\* The event is the return of an Authenticate that succeeded.
IsLogin(e) == e.ev = "login" /\ e.what = "ok"

\* C19 as claimed: every GET carries the basic credentials exactly in basic
\* mode and the CSRF header exactly when the session holds a token, with that
\* token; and a GET sent after a successful login of the same call carries
\* the token of the session that login opened, or none when its response set
\* no isicsrf cookie: never the token of the session before.
C19_RequestsCarryCurrentSession ==
  \A k \in 1..Len(result.log) :
    result.log[k].ev = "get" =>
      /\ result.log[k].basic = (cluster.AuthType = "basic-auth")
      /\ (\A j \in (k + 1)..Len(result.log) : ~IsLogin(result.log[j]))
           => result.log[k].csrf = cluster.csrfToken
      /\ \A j \in 1..(k - 1) :
           (IsLogin(result.log[j])
            /\ \A i \in (j + 1)..(k - 1) : ~IsLogin(result.log[i]))
           => result.log[k].csrf = result.log[j].csrf

\* C20: when the fetch of the dataset definitions fails at the start of a
\* pass of the polling loop, the worker ends at once: the failed fetch is all
\* the pass did, with no second fetch, no schema sync, no fetch of samples
\* and no write to the sink.
C20_DatasetFailureEndsWorker ==
  \A k \in 1..Len(history) :
    (history[k].ev = "datasets" /\ ~history[k].ok) =>
      /\ Len(history) = 1
      /\ worker.pc = "ended"

\* C20 witness: after a whole first pass, the fetch of the datasets failed at
\* the start of the second and the worker has ended.
C20_Witness ==
  /\ worker.cycle = 2 /\ worker.pc = "ended"
  /\ history = <<LoopEvent("datasets", "", FALSE, 0)>>

\* C21: a failed fetch of samples neither ends the worker nor skips the
\* dataset: after it the worker sleeps and fetches the same dataset again,
\* and a write to the sink for a dataset comes only after a fetch for that
\* dataset that succeeded, with no failed fetch in between.
C21_ReadFailureRetriesSameDataset ==
  \A k \in 1..Len(history) :
    /\ (history[k].ev = "read" /\ ~history[k].ok) =>
         /\ k + 1 <= Len(history)
         /\ history[k + 1].ev = "sleep" /\ history[k + 1].ds = history[k].ds
         /\ IF k + 2 <= Len(history)
            THEN history[k + 2].ev = "read" /\ history[k + 2].ds = history[k].ds
            ELSE worker.pc = "read" /\ CurrentDs = history[k].ds
    /\ history[k].ev = "write" =>
         \E j \in 1..(k - 1) :
           /\ history[j].ev = "read" /\ history[j].ok /\ history[j].ds = history[k].ds
           /\ \A i \in (j + 1)..(k - 1) : history[i].ev \in {"write", "sleep"}

\* C21 witness: the fetch for the second dataset of the pass failed twice,
\* then succeeded, and its samples were written.
C21_Witness ==
  /\ Len(history) >= 6 /\ worker.idx = 2
  /\ LET n == Len(history)
     IN  /\ history[n].ev = "write" /\ history[n].ok /\ history[n].ds = "ds2"
         /\ history[n - 1].ev = "read" /\ history[n - 1].ok
         /\ history[n - 2].ev = "sleep"
         /\ history[n - 3].ev = "read" /\ ~history[n - 3].ok /\ history[n - 3].ds = "ds2"
         /\ history[n - 5].ev = "read" /\ ~history[n - 5].ok /\ history[n - 5].ds = "ds2"

\* The failed fetches for the dataset ds among the first k events of the pass.
ReadFailures(ds, k) ==
  Cardinality({j \in 1..k : history[j].ev = "read" /\ ~history[j].ok /\ history[j].ds = ds})

\* C22 as claimed: for each dataset of a pass the sleep after its n-th failed
\* fetch is min(10 * 2^(n-1), 1280) seconds: 10, 20, 40, ... whatever was
\* read or written for the datasets before it.
C22_ReadBackoffPerDataset ==
  \A k \in 2..Len(history) :
    (history[k].ev = "sleep" /\ history[k - 1].ev = "read" /\ ~history[k - 1].ok) =>
      history[k].secs =
        Smaller(10 * Pow2(ReadFailures(history[k].ds, k) - 1), 1280)

\* The places in the pass's history of the writes for the dataset ds: all of
\* them, and those that succeeded.
WritesOf(ds) == {k \in 1..Len(history) : history[k].ev = "write" /\ history[k].ds = ds}
GoodWritesOf(ds) == {k \in WritesOf(ds) : history[k].ok}

\* C23: with a write-retry count N >= 1 and a sink whose writes can fail, a
\* batch is written at most N times; when all N writes have failed the worker
\* ends without doing anything more, and it ends on writes only then; a write
\* that succeeds is the last one for its batch and the worker goes on to
\* another dataset.
C23_WriteRetriesBounded ==
  LET N == worker.gc.ProcessorMaxRetries
  IN  N >= 1 =>
        /\ \A ds \in {history[k].ds : k \in 1..Len(history)} :
             /\ Cardinality(WritesOf(ds)) <= N
             /\ Cardinality(GoodWritesOf(ds)) <= 1
             /\ \A k \in GoodWritesOf(ds) :
                  /\ \A j \in WritesOf(ds) : j <= k
                  /\ k < Len(history) => history[k + 1].ds # ds
                  /\ k = Len(history) => worker.pc # "ended"
             /\ (Cardinality(WritesOf(ds)) = N /\ GoodWritesOf(ds) = {}) =>
                  /\ worker.pc \in {"write", "ended"}
                  /\ history[Len(history)].ev = "sleep" /\ history[Len(history)].ds = ds
        /\ (worker.pc = "ended" /\ history[1].ok) =>
             LET ds == history[Len(history)].ds
             IN  Cardinality(WritesOf(ds)) = N /\ GoodWritesOf(ds) = {}

\* C23 witness: with a count of 2 the write for the first dataset succeeded
\* on the second attempt, the two writes for the second dataset failed, and
\* the worker has ended.
C23_Witness ==
  /\ worker.gc.ProcessorMaxRetries = 2 /\ worker.pc = "ended"
  /\ Cardinality(WritesOf("ds1")) = 2 /\ Cardinality(GoodWritesOf("ds1")) = 1
  /\ Cardinality(WritesOf("ds2")) = 2 /\ GoodWritesOf("ds2") = {}

\* C24 as claimed: with a write-retry count of 0 the worker does not end on
\* account of writes, and every batch fetched is handed to the sink: what
\* follows a fetch that succeeded is a write of that dataset's batch.
C24_ZeroRetriesWritesForever ==
  worker.gc.ProcessorMaxRetries = 0 =>
    /\ (worker.pc = "ended" => ~history[1].ok)
    /\ \A k \in 1..(Len(history) - 1) :
         (history[k].ev = "read" /\ history[k].ok) =>
           history[k + 1].ev = "write" /\ history[k + 1].ds = history[k].ds

\* The failed writes for the dataset ds among the first k events of the pass.
WriteFailures(ds, k) ==
  Cardinality({j \in 1..k : history[j].ev = "write" /\ ~history[j].ok /\ history[j].ds = ds})

\* C25 as claimed: the sleep after the n-th failed write of a batch is the
\* configured retry interval doubled n-1 times and cut to 1280 seconds, so
\* no such sleep is above 1280 seconds, whatever the interval.
C25_WriteBackoffCapped ==
  \A k \in 2..Len(history) :
    (history[k].ev = "sleep" /\ history[k - 1].ev = "write" /\ ~history[k - 1].ok) =>
      /\ history[k].secs =
           Smaller(worker.gc.ProcessorRetryIntvl
                     * Pow2(WriteFailures(history[k].ds, k) - 1), 1280)
      /\ history[k].secs <= 1280

\* C26: the passes of a worker begin at least 30 seconds apart: at the end
\* of a pass that took less than 30 seconds the worker sleeps the remainder,
\* to 30 seconds after the pass began, and at the end of a pass that took 30
\* seconds or more it does not sleep.
C26_CadenceFromCycleStart ==
  [][/\ worker.pc = "cadence" =>
          LET took == worker.time - worker.curTime
          IN  IF took < 30
              THEN /\ worker'.time = worker.curTime + 30
                   /\ history' = Append(history, LoopEvent("sleep", "", TRUE, 30 - took))
                   /\ 30 - took > 0
              ELSE /\ worker'.time = worker.time
                   /\ history' = history
     /\ (worker.cycle >= 1 /\ worker'.cycle = worker.cycle + 1) =>
          worker'.curTime >= worker.curTime + 30]_vars

\* C26 witness: a pass that took 14 seconds has ended with a sleep of 16
\* seconds, and the worker is at the top of its loop 30 seconds after the
\* pass began.
C26_Witness ==
  /\ worker.pc = "top" /\ worker.cycle = 1
  /\ worker.time = worker.curTime + 30
  /\ history # <<>>
  /\ history[Len(history)] = LoopEvent("sleep", "", TRUE, 16)

\* The places in the pass's history of the fetches and writes of samples,
\* and the place in the fetched list of the dataset of the event at k.
Transfers == {k \in 1..Len(history) : history[k].ev \in {"read", "write"}}
PlaceOf(k) == CHOOSE i \in 1..Len(worker.di) : worker.di[i].Name = history[k].ds

OthersUntouched(ci) ==
  \A cj \in 1..Len(fleet.w) : cj # ci => fleet'.w[cj] = fleet.w[cj]

\* The worker of cluster ci ends in the step.
EndsNow(ci) == fleet.w[ci].state # "ended" /\ fleet'.w[ci].state = "ended"

\* Claim C28: workers are independent. The step in which one cluster's worker
\* ends (connect failure, dataset-fetch failure, write-retry exhaustion)
\* leaves every other cluster's worker as it was and leaves the process
\* running, so the others are not stopped; main has exited only when every
\* worker it spawned has ended; and a disabled cluster has no worker.
C28_WorkersIndependent ==
  [][/\ \A ci \in 1..Len(fleet.w) : EndsNow(ci) => OthersUntouched(ci)
     /\ ~fleet'.crashed
     /\ fleet'.pc = "exited" =>
          \A ci \in 1..Len(fleet.w) : fleet'.w[ci].state \in {"none", "ended"}
     /\ \A ci \in 1..Len(fleet.w) :
          fleet.conf.Clusters[ci].Disabled => fleet'.w[ci].state = "none"]_vars

\* The number of calls of GetExportPathById for the export id.
CallsFor(id) == Cardinality({k \in 1..Len(lookup.calls) : lookup.calls[k] = id})

\* Claim C29: with export-id lookup enabled, each export id is resolved
\* through the cluster API at most once, and every later stat carrying the id
\* gets the path the first one got, whatever the cluster holds by then.
C29_ExportResolvedOnce ==
  lookup.exports.enabled =>
    /\ \A id \in ExportIds : CallsFor(id) <= 1
    /\ \A i, j \in 1..Len(lookup.tagged) :
         i < j /\ lookup.tagged[i].id # Nil /\ lookup.tagged[j].id = lookup.tagged[i].id
           => lookup.tagged[j].path = lookup.tagged[i].path

\* The stat is a regular sample: it has no workload type, or the pinned marker.
Regular(ppstat) ==
  ppstat.WorkloadType = Nil \/ Deref(ppstat.WorkloadType) = "Pinned"

\* The label map the claim gives a regular stat of the dataset ds: cluster,
\* node and pinned, and each declared metric of ds with the stat's tag for it.
RegularLabels(ds, ppstat) ==
  LET tags == tagsForPPStat(ppstat, exports, Nil)
  IN  [k \in {"cluster", "node", "pinned"} \cup Range(ds.Metrics) |->
         IF k = "cluster" THEN ClusterName
         ELSE IF k = "node" THEN Itoa(ppstat.Node)
         ELSE IF k = "pinned"
         THEN (IF ppstat.WorkloadType # Nil /\ Deref(ppstat.WorkloadType) = "Pinned"
               THEN "true" ELSE "false")
         ELSE Get(tags, k, "")]

\* The un-prefixed family of the field for the dataset ds, as the sink named
\* it when it created the dataset.
PlainFamily(ds, field) == PromMetricAt(DsiOf(dsm, ds.Id).ds, field).name

\* A batch was written and the clock has not moved since.
JustWritten == written # Nil /\ now = Deref(written).at

\* Claim C30: each regular stat of a batch (no workload type, or "Pinned") is
\* recorded under the 11 un-prefixed families of its dataset, one per fixed
\* field, with the label keys cluster, node, pinned and the dataset's declared
\* metrics, pinned being "true" iff the stat carried the pinned marker; and
\* the next Collect, here one made before the clock moves, sends 11 metrics for it,
\* one per fixed field, with that label map and the field's value.
C30_RegularSampleRecorded ==
  JustWritten =>
    \A k \in 1..Len(Deref(written).ppstats) :
      LET ds     == Deref(written).ds
          ppstat == Deref(written).ppstats[k]
          labels == RegularLabels(ds, ppstat)
      IN  Regular(ppstat) =>
            \A i \in 1..Len(ppFixedFields) :
              LET name == PlainFamily(ds, ppFixedFields[i])
                  value == fieldsForPPStat(ppstat)[ppFixedFields[i]]
              IN  /\ name \in DOMAIN fam
                  /\ \E id \in DOMAIN fam[name].Samples :
                       /\ fam[name].Samples[id].Labels = labels
                       /\ fam[name].Samples[id].Value = value
                  /\ lastOp = "collect" =>
                       \E r \in DOMAIN emitted :
                         r.name = name /\ r.labels = labels /\ r.value = value


\* The stat carries one of the aggregation buckets as its workload type.
InBucket(ppstat) ==
  ppstat.WorkloadType # Nil /\ Deref(ppstat.WorkloadType) \in Range(workloadTypes)

\* The families of the sink's dataset id for the keys.
FamiliesOf(id, keys) == {PromMetricAt(dsm.map[id].ds, key).name : key \in keys}
PlainFamilies == UNION {FamiliesOf(id, Range(ppFixedFields)) : id \in DOMAIN dsm.map}
BucketFamilies == UNION {FamiliesOf(id, DOMAIN OverflowKeys) : id \in DOMAIN dsm.map}

\* Claim C31: a stat whose workload type is an aggregation bucket is recorded
\* under the 11 families "<bucket>_<field>" of its dataset with the labels
\* cluster and node only; a sample without the pinned label is under no
\* un-prefixed family, and no sample of a bucket family carries a declared
\* metric or the pinned label.
C31_BucketSampleRecorded ==
  /\ JustWritten =>
       \A k \in 1..Len(Deref(written).ppstats) :
         LET ds     == Deref(written).ds
             ppstat == Deref(written).ppstats[k]
         IN  InBucket(ppstat) =>
               \A i \in 1..Len(ppFixedFields) :
                 LET key  == Deref(ppstat.WorkloadType) \o "_" \o ppFixedFields[i]
                     name == PromMetricAt(DsiOf(dsm, ds.Id).ds, key).name
                 IN  /\ name \in DOMAIN fam
                     /\ \E id \in DOMAIN fam[name].Samples :
                          /\ DOMAIN fam[name].Samples[id].Labels = {"cluster", "node"}
                          /\ fam[name].Samples[id].Labels["cluster"] = ClusterName
  /\ \A name \in BucketFamilies \cap DOMAIN fam : \A id \in DOMAIN fam[name].Samples :
       DOMAIN fam[name].Samples[id].Labels = {"cluster", "node"}
  /\ \A name \in PlainFamilies \cap DOMAIN fam : \A id \in DOMAIN fam[name].Samples :
       "pinned" \in DOMAIN fam[name].Samples[id].Labels

\* C31 witness: a batch with a "System" stat of node 2 was just written and
\* its bytes_in sample is in the store.
C31_Witness ==
  /\ JustWritten /\ lastOp = "write"
  /\ \E k \in 1..Len(Deref(written).ppstats) :
       /\ InBucket(Deref(written).ppstats[k])
       /\ \E name \in BucketFamilies \cap DOMAIN fam : \E id \in DOMAIN fam[name].Samples :
            /\ fam[name].Samples[id].Labels = [cluster |-> ClusterName, node |-> "2"]
            /\ fam[name].Samples[id].Value = 10


\* The workload of a response lacks a required metric, or has one that is not
\* a number.
BadWorkload(raw) ==
  \E f \in DOMAIN JsonKey : JsonKey[f] \notin DOMAIN raw \/ raw[JsonKey[f]].t # "num"

\* Claim C32: a response with a workload whose required numeric field is
\* missing or not a number ends in the fatal violation: the call neither
\* returns an error to be retried, nor records the workloads.
C32_BadFieldIsFatal ==
  (parse.pc \in {"failed", "recorded"}) =>
    \A k \in 1..Len(parse.res) : ~BadWorkload(parse.res[k])


\* The sink of cluster ci cannot be made or initialized: the backend name is
\* unknown, or it is the Prometheus sink and the cluster has no port.
BadSink(ci) ==
  \/ fleet.conf.Processor \notin {"discard", "influxdb", "influxdbv2", "prometheus"}
  \/ fleet.conf.Processor = "prometheus" /\ fleet.conf.Clusters[ci].PrometheusPort = Nil

\* Claim C33: with an unknown sink kind, or the Prometheus sink and no
\* listener port for the cluster, the worker of the cluster never enters its
\* polling loop: it makes no pass, and once its set-up has run it has ended.
C33_BadSinkEndsWorker ==
  \A ci \in 1..Len(fleet.w) :
    BadSink(ci) => fleet.w[ci].state \in {"none", "spawned", "ended"} /\ fleet.w[ci].passes = 0

\* C33 witness: the Prometheus sink of the second cluster, which has no
\* port, failed to initialize and its worker ended, while the worker of the
\* first cluster polls.
C33_Witness ==
  /\ BadSink(2) /\ ~BadSink(1)
  /\ fleet.w[2].state = "ended" /\ fleet.w[2].why = "init"
  /\ fleet.w[1].state = "running" /\ fleet.w[1].passes > 0


\* The worker holds the sink's mutex.
WorkerHolds == hold.wpc \in {"tags", "get", "sleep"}

\* Claim C34: the worker never holds the mutex of the metric store while it
\* waits for the answer of a cluster HTTP request or sleeps in a retry
\* back-off, the lookups of export ids made while recording included.
C34_NoLockAcrossRequests ==
  ~(WorkerHolds /\ hold.wpc \in {"get", "sleep"})


\* Claim C35: a Collect never sends two metrics of one family with the same
\* label values: samples with equal label maps have one fingerprint, so the
\* later recording replaced the earlier.
C35_NoDuplicateLabels ==
  lastOp = "collect" =>
    /\ \A r \in DOMAIN emitted : emitted[r] = 1
    /\ \A r1, r2 \in DOMAIN emitted :
         r1.name = r2.name /\ r1.labels = r2.labels => r1 = r2


\* Claim C36: every dataset handed to WritePPStats has an entry in the sink's
\* dataset map, whatever its id, so every family recorded into bears a name
\* generated for a dataset: after a write the dataset written is held, and no
\* family has the empty name.
C36_WrittenDatasetIsHeld ==
  /\ (lastOp = "write" /\ written # Nil) => Deref(written).ds.Id \in DOMAIN dsm.map
  /\ "" \notin DOMAIN fam


\* Claim C37: a workload reported in every pass is sent by every Collect
\* between its first and its last recording: when a pass records it again,
\* the sample of the pass before has not expired yet.
C37_NoGapBetweenCycles ==
  (worker.pc = "written" /\ worker.before # Nil) =>
    ~Expired([Expiration |-> Deref(worker.before)], worker.time)


\* The families in the store that belong to no dataset the sink holds.
Orphans == (DOMAIN fam) \ (PlainFamilies \cup BucketFamilies)

UnknownType(ppstat) ==
  /\ ppstat.WorkloadType # Nil
  /\ Deref(ppstat.WorkloadType) \notin {"Pinned"} \cup Range(workloadTypes)

\* The stats of a batch without those of an unknown workload type.
KnownOnly(ppstats) == SelectSeq(ppstats, LAMBDA ppstat : ~UnknownType(ppstat))

\* Claim C39: a stat whose workload type is not absent, "Pinned" or a known
\* bucket is skipped: a call of WritePPStats returns and leaves the store as
\* the same call without that stat leaves it, so nothing is recorded for the
\* stat and the other stats of the batch are recorded.
C39_UnknownTypeSkipped ==
  [][(lastOp' = "write" /\ written' # Nil) =>
       LET call == Deref(written')
           kept == KnownOnly(call.ppstats)
       IN  \E envs \in EnvsOf(kept, exports, {Nil}) :
             fam' = WriteStats(fam, ClusterName, DsiOf(dsm, call.ds.Id), kept, exports, envs, now)]_vars

\* C39 witness: a batch with a stat of the unknown type "Bogus" was written:
\* the store holds the pinned stat of the batch and no family but those of
\* the datasets.
C39_Witness ==
  /\ JustWritten /\ lastOp = "write"
  /\ \E k \in 1..Len(Deref(written).ppstats) : UnknownType(Deref(written).ppstats[k])
  /\ Orphans = {}
  /\ \E name \in PlainFamilies \cap DOMAIN fam : \E id \in DOMAIN fam[name].Samples :
       /\ fam[name].Samples[id].Labels["pinned"] = "true"
       /\ fam[name].Samples[id].Expiration = now + SampleTTL


\* Claim C40: CreateSampleID is injective on label maps: a label map with
\* the fingerprint just returned is the label map it was returned for, also
\* when a key or a value contains ',' or '='.
C40_FingerprintInjective ==
  \A tags \in FpTagMaps : \A order \in KeyOrders(tags) :
    CreateSampleID(tags, order) = fpID => tags = fpTags

====
